---- MODULE Spec2Model ----
(***************************************************************************)
(* claude-receipts: the thermal-printer output path.                       *)
(*                                                                         *)
(*   GenerateCommand.execute      src/src/commands/generate.ts             *)
(*   ThermalPrinterRenderer       src/src/core/thermal-printer.ts          *)
(*                                                                         *)
(* A string of the program is a sequence of one-character strings, so      *)
(* that startsWith, split and parseInt are computed as the code computes   *)
(* them.  Every call into a library (usb, net, child_process, fs) is a     *)
(* step whose outcome the environment chooses.                             *)
(***************************************************************************)
EXTENDS Integers, Sequences, FiniteSets, TLC

(***************************************************************************)
(* Bounds of the model.                                                    *)
(***************************************************************************)
\* longest --output list given on the command line
MaxOutput == 3

(***************************************************************************)
(* Program constants.                                                      *)
(***************************************************************************)
EPSON_VENDOR_ID == 1208
TM_T88V_PRODUCT_ID == 514
DEFAULT_TCP_PORT == 9100
MAX_TCP_PORT == 65535
\* parseInt's result for a string with no leading digit of the radix
NaN == -1

(***************************************************************************)
(* Strings.                                                                *)
(***************************************************************************)
Digits == <<"0", "1", "2", "3", "4", "5", "6", "7", "8", "9">>
HexDigits == Digits \o <<"a", "b", "c", "d", "e", "f">>

\* the value of character c as a digit of the radix, or NaN
DigitVal(c, radix) ==
  LET hits == {i \in 1..radix : HexDigits[i] = c}
  IN  IF hits = {} THEN NaN ELSE (CHOOSE i \in hits : TRUE) - 1

\* String.prototype.startsWith
StartsWith(s, p) ==
  /\ Len(s) >= Len(p)
  /\ SubSeq(s, 1, Len(p)) = p

\* the index of the first occurrence of character c in s, or 0
IndexOf(s, c) ==
  LET hits == {i \in 1..Len(s) : s[i] = c}
  IN  IF hits = {} THEN 0 ELSE CHOOSE i \in hits : \A j \in hits : i <= j

\* String.prototype.split on a one-character separator
RECURSIVE Split(_, _)
Split(s, sep) ==
  LET i == IndexOf(s, sep)
  IN  IF i = 0 THEN <<s>>
      ELSE <<SubSeq(s, 1, i - 1)>> \o Split(SubSeq(s, i + 1, Len(s)), sep)

\* parseInt(s, radix): the value of the longest prefix of digits of the
\* radix (after an optional 0x when the radix is 16), NaN when it is empty
RECURSIVE ParseDigits(_, _, _, _)
ParseDigits(s, radix, acc, seen) ==
  IF s = <<>> \/ DigitVal(Head(s), radix) = NaN
  THEN IF seen THEN acc ELSE NaN
  ELSE ParseDigits(Tail(s), radix, acc * radix + DigitVal(Head(s), radix), TRUE)

ParseInt(s, radix) ==
  IF radix = 16 /\ StartsWith(s, <<"0", "x">>)
  THEN ParseDigits(SubSeq(s, 3, Len(s)), radix, 0, FALSE)
  ELSE ParseDigits(s, radix, 0, FALSE)

\* the decimal numeral of n
RECURSIVE Decimal(_)
Decimal(n) ==
  IF n < 10 THEN <<Digits[n + 1]>>
  ELSE Append(Decimal(n \div 10), Digits[(n % 10) + 1])

\* Number.prototype.toString(16); NaN prints as NaN
RECURSIVE HexNumeral(_)
HexNumeral(n) ==
  IF n < 16 THEN <<HexDigits[n + 1]>>
  ELSE Append(HexNumeral(n \div 16), HexDigits[(n % 16) + 1])

ToHex(n) == IF n = NaN THEN <<"N", "a", "N">> ELSE HexNumeral(n)

S_tcp == <<"t", "c", "p", ":", "/", "/">>
S_usb == <<"u", "s", "b">>
S_usbColon == <<"u", "s", "b", ":">>
S_9100 == <<"9", "1", "0", "0">>

\* new URL(address) of a tcp:// address: the authority ends at the first "/",
\* the host at the first ":"; a port is decimal digits up to 65535, and any
\* other port makes the constructor throw
UrlAuthority(address) ==
  LET rest == SubSeq(address, Len(S_tcp) + 1, Len(address))
      slash == IndexOf(rest, "/")
  IN  IF slash = 0 THEN rest ELSE SubSeq(rest, 1, slash - 1)

UrlHostname(address) ==
  LET a == UrlAuthority(address)
      colon == IndexOf(a, ":")
  IN  IF colon = 0 THEN a ELSE SubSeq(a, 1, colon - 1)

UrlPort(address) ==
  LET a == UrlAuthority(address)
      colon == IndexOf(a, ":")
  IN  IF colon = 0 THEN <<>> ELSE SubSeq(a, colon + 1, Len(a))

UrlValid(address) ==
  LET p == UrlPort(address)
  IN  /\ \A i \in 1..Len(p) : DigitVal(p[i], 10) /= NaN
      /\ (p /= <<>> => ParseInt(p, 10) <= MAX_TCP_PORT)

\* sendViaTcp: const port = parseInt(url.port || "9100", 10)
TcpPortOf(address) ==
  ParseInt(IF UrlPort(address) = <<>> THEN S_9100 ELSE UrlPort(address), 10)

\* a dispatch that takes every string beginning with usb for a USB destination
TransportForLoosePrefix(printerInterface) ==
  IF StartsWith(printerInterface, S_tcp) THEN "tcp"
  ELSE IF StartsWith(printerInterface, S_usb) THEN "usb"
       ELSE "cups"

\* printReceipt: the transport the destination string selects
TransportFor(printerInterface) ==
  IF StartsWith(printerInterface, S_tcp) THEN "tcp"
  ELSE IF printerInterface = S_usb \/ StartsWith(printerInterface, S_usbColon)
       THEN "usb"
       ELSE "cups"

\* sendViaUsb: the vendor/product ID pair looked for
UsbIdsFor(spec) ==
  LET parts == Split(spec, ":")
  IN  IF StartsWith(spec, S_usbColon) /\ Len(parts) >= 3
      THEN [vid |-> ParseInt(parts[2], 16), pid |-> ParseInt(parts[3], 16)]
      ELSE [vid |-> EPSON_VENDOR_ID, pid |-> TM_T88V_PRODUCT_ID]

(***************************************************************************)
(* Inputs.                                                                 *)
(***************************************************************************)
Formats == {"html", "console", "printer"}

\* options.output: absent, or the list the --output parser built
Undefined == <<"undefined">>
OutputOptions ==
  {Undefined} \cup UNION {[1..n -> Formats] : n \in 0..MaxOutput}

\* options.printer || config.printer; the empty string is "no printer"
NoPrinter == <<>>
Destinations ==
  { NoPrinter,
    <<"t", "c", "p", ":", "/", "/", "h", ":", "9", "1">>,
    <<"t", "c", "p", ":", "/", "/", "h">>,
    <<"t", "c", "p", ":", "/", "/", "h", ":", "9", "x">>,
    <<"t", "c", "p", ":", "/", "h">>,
    <<"u", "s", "b">>,
    <<"u", "s", "b", ":", "0", "4", "b", "8", ":", "0", "2", "0", "2">>,
    <<"u", "s", "b", ":", "1", "a", ":", "2">>,
    <<"u", "s", "b", ":", "z", "z", ":", "0", "2", "0", "2">>,
    <<"u", "s", "b", ":", "4", "z", ":", "2">>,
    <<"u", "s", "b", ":", "0", "4", "b", "8">>,
    <<"u", "s", "b", "x">>,
    <<"O", "f", "f", "i", "c", "e">> }

(***************************************************************************)
(* Errors.  `reason` carries the text of the underlying failure.           *)
(***************************************************************************)
\* an error: its kind, the reason its message gives, what the message names
\* and the lines the message lists
ErrWith(kind, reason, about, detail) ==
  [kind |-> kind, reason |-> reason, about |-> about, detail |-> detail]

Err(kind, reason) == ErrWith(kind, reason, <<>>, <<>>)
NoError == Err("none", "")

\* ---- the USB devices the host sees ----
\* the most devices a host shows
MaxDevices == 11

\* devices.slice(0, 10)
SUMMARY_LIMIT == 10

Device(vendor, product) == [idVendor |-> vendor, idProduct |-> product]

\* n devices that are no printer: 1001:1, 1002:2, ...
OtherDevices(n) == [i \in 1..n |-> Device(4096 + i, i)]

\* what getDeviceList can return: up to MaxDevices other devices, or a
\* printer alone, or a printer behind MaxDevices other devices
Registries ==
  { OtherDevices(n) : n \in 0..MaxDevices }
    \cup { <<Device(EPSON_VENDOR_ID, TM_T88V_PRODUCT_ID)>>,
           <<Device(26, 2)>>,
           Append(OtherDevices(MaxDevices),
                  Device(EPSON_VENDOR_ID, TM_T88V_PRODUCT_ID)) }

\* findByIds(vid, pid) finds a device
FindByIds(devices, ids) ==
  \E i \in 1..Len(devices) :
    devices[i].idVendor = ids.vid /\ devices[i].idProduct = ids.pid

\* `${vid.toString(16)}:${pid.toString(16)}`
IdPair(vendor, product) == ToHex(vendor) \o <<":">> \o ToHex(product)

S_none == <<" ", " ", "(", "n", "o", "n", "e", ")">>

\* devices.slice(0, 10).map(d => `  ${vid}:${pid}`), one line per device
DeviceSummary(devices) ==
  [i \in 1..(IF Len(devices) < SUMMARY_LIMIT THEN Len(devices)
              ELSE SUMMARY_LIMIT) |->
     <<" ", " ">> \o IdPair(devices[i].idVendor, devices[i].idProduct)]

\* new Error(`USB printer not found (looking for ${vid}:${pid}).\n` +
\*   `Visible USB devices:\n${summary || "  (none)"}`)
DeviceNotFound(ids, devices) ==
  ErrWith("DeviceNotFound", "", IdPair(ids.vid, ids.pid),
          IF DeviceSummary(devices) = <<>> THEN <<S_none>>
          ELSE DeviceSummary(devices))

\* ---- the endpoints of interface 0 ----
S_in == <<"i", "n">>
S_out == <<"o", "u", "t">>

Endpoint(address, direction) == [address |-> address, direction |-> direction]

\* iface.endpoints: none, IN only, OUT only, both
EndpointSets ==
  { <<>>,
    <<Endpoint(129, S_in)>>,
    <<Endpoint(1, S_out)>>,
    <<Endpoint(129, S_in), Endpoint(1, S_out)>>,
    <<Endpoint(129, S_in), Endpoint(130, S_in)>> }

\* iface.endpoints.find(ep => ep instanceof OutEndpoint) finds one
HasOutEndpoint(eps) == \E i \in 1..Len(eps) : eps[i].direction = S_out

\* `${e.address} (${e.direction})`
EndpointText(e) ==
  Decimal(e.address) \o <<" ", "(">> \o e.direction \o <<")">>

\* new Error("No OUT endpoint found on USB interface 0. Endpoints: " + ...)
EndpointNotFound(eps) ==
  ErrWith("EndpointNotFound", "", <<>>,
          [i \in 1..Len(eps) |-> EndpointText(eps[i])])

\* ---- the destinations of the spooler ----
S_printer == <<"p", "r", "i", "n", "t", "e", "r", " ">>
S_idle == <<" ", "i", "s", " ", "i", "d", "l", "e", ".", "\n">>
S_paused == <<"\t", "P", "a", "u", "s", "e", "d", "\n">>
P_TM == <<"T", "M">>
P_HP == <<"H", "P">>

\* what `lpstat -p` can print, with the destinations it stands for: one
\* "printer NAME ..." line per destination, a tab-indented line under a
\* paused one
LpstatAnswers ==
  { [printers |-> <<>>, stdout |-> <<>>],
    [printers |-> <<P_TM>>, stdout |-> S_printer \o P_TM \o S_idle],
    [printers |-> <<P_TM, P_HP>>,
     stdout |-> S_printer \o P_TM \o S_idle
                  \o S_printer \o P_HP \o S_idle \o S_paused] }

\* the second word of every line of the output
SecondWordOfEveryLine(stdout) ==
  LET lines == Split(stdout, "\n")
  IN  [i \in 1..Len(lines) |->
         IF Len(Split(lines[i], " ")) > 1 THEN Split(lines[i], " ")[2]
         ELSE <<>>]

\* stdout.split("\n").filter(l => l.startsWith("printer "))
\*       .map(l => l.split(" ")[1])
AvailablePrinters(stdout) ==
  LET IsPrinterLine(l) == StartsWith(l, S_printer)
      kept == SelectSeq(Split(stdout, "\n"), IsPrinterLine)
  IN  [i \in 1..Len(kept) |-> Split(kept[i], " ")[2]]

\* new Error(`Printer "${printerName}" not found in CUPS.${available ||
\*   "\nNo printers are configured. ..."}`)
NotInCups(printerName, names) ==
  ErrWith("DestinationNotConfigured",
          IF names = <<>> THEN "No printers are configured"
          ELSE "Available printers",
          printerName, names)

\* err.message of a socket error: of a failed connect, of a failed write
ConnectReasons == {"ECONNREFUSED", "ETIMEDOUT"}
WriteReasons == {"ECONNRESET", "EPIPE"}

\* [...new Set(list)]: the distinct elements in order of first occurrence
RECURSIVE Dedupe(_)
Dedupe(list) ==
  IF list = <<>> THEN <<>>
  ELSE LET front == Dedupe(SubSeq(list, 1, Len(list) - 1))
           last == list[Len(list)]
       IN  IF \E i \in 1..Len(front) : front[i] = last
           THEN front ELSE Append(front, last)

\* execute: const outputFormats = [...new Set(options.output ||
\*   (isFromHook ? ["html"] : ["console"]))]
OutputFormatsFor(opt, fromHook) ==
  IF opt = Undefined
  THEN IF fromHook THEN <<"html">> ELSE <<"console">>
  ELSE Dedupe(opt)

\* a check that fails the run as soon as one output failed
AnyOutputFailed(errs, formats) == Len(errs) > 0

\* execute: if (errors.length === outputFormats.length) throw errors[0].error
AllOutputsFailed(errs, formats) == Len(errs) = Len(formats)

(***************************************************************************)
(* State.                                                                  *)
(***************************************************************************)
VARIABLES
  pc,             \* where execute / the print call stands
  output,         \* options.output
  printerOpt,     \* options.printer || config.printer
  isFromHook,     \* !!stdinData
  sessionData,    \* "none" until the fetch; then "fetched" or "failed"
  receipt,        \* generateReceipt has returned the receipt
  outputFormats,  \* the formats of the run, in order
  idx,            \* the format of the loop's current iteration
  errors,         \* execute's errors array: <<format, error>> records
  attempted,      \* the formats whose output was started, in order
  completed,      \* the formats whose output returned normally
  exitCode,       \* "none" while running; "0" normal return; "1" process.exit(1)
  transport,      \* the transport printReceipt dispatched to
  dispatches,     \* how many transports were dispatched by the print call
  tcpTarget,      \* host and port handed to createConnection
  usbIds,         \* vendor/product pair handed to findByIds
  ops,            \* the library calls of the print call, in order
  dev,            \* the USB device: open, interface claimed, kernel driver
  thrown,         \* the exception in flight inside a try block
  callError,      \* the error the print call was rejected with
  sock,           \* the TCP socket: its state and the reason it failed with
  promise,        \* sendViaTcp's promise
  settles,        \* the calls of resolve/reject made on that promise
  flushed,        \* the socket's write was flushed ('finish')
  tmpFile,        \* the spool file exists on disk
  cupsDest,       \* the destination name handed to lpstat and lp
  deviceList,     \* what getDeviceList() returned for the diagnostic
  endpoints,      \* iface.endpoints of the opened device
  cupsListing     \* what the listing `lpstat -p` answered

\* Date.now() and the spool directory that concurrent print calls share
VARIABLES
  clock,          \* Date.now(), in milliseconds
  spoolCall,      \* each concurrent sendViaCups call: position, tmpFile
  tmpdir,         \* the files of os.tmpdir(): name -> the buffer written
  lpJobs          \* the jobs lp submitted: the call and the buffer it read

spoolVars == << clock, spoolCall, tmpdir, lpJobs >>

\* no concurrent spooler call is under way
SpoolIdle ==
  /\ clock = 0
  /\ spoolCall = <<>>
  /\ tmpdir = <<>>
  /\ lpJobs = <<>>

\* getModelName, applied by each renderer to one model identifier
VARIABLES
  modelId,        \* the identifier handed to getModelName
  shown           \* renderer -> the results of getModelName, applied in turn

nameVars == << modelId, shown >>

\* no identifier is being rendered
NameIdle ==
  /\ modelId = <<>>
  /\ shown = <<>>

\* buildReceipt, applied to the model breakdowns of one session
VARIABLES
  modelBreakdowns,  \* data.sessionData.modelBreakdowns
  buffer            \* the commands the builder has appended, in order

builderVars == << modelBreakdowns, buffer >>

\* no receipt is being built
BuilderIdle ==
  /\ modelBreakdowns = <<>>
  /\ buffer = <<>>

\* EscPosBuilder.leftRight, applied to one pair of texts
VARIABLES
  left,           \* the left text
  right,          \* the right text
  row             \* the line leftRight appended; empty before the call

rowVars == << left, right, row >>

\* no row is being formatted
RowIdle ==
  /\ left = <<>>
  /\ right = <<>>
  /\ row = <<>>

\* SetupCommand: settings.json, its backup, and the runs of setup
VARIABLES
  settingsFile,   \* ~/.claude/settings.json: absent, or its content
  backupFile,     \* settings.json.backup: absent, or its content
  settingsBefore, \* settings.json as the last run of setup found it
  fsLog,          \* the writeFile calls of the last run, in order
  lastRun,        \* the last run: command, outputs, how it ended
  runs            \* how many runs of setup there were

setupVars == << settingsFile, backupFile, settingsBefore, fsLog, lastRun,
                runs >>

\* setup was never run
SetupIdle ==
  /\ settingsFile = <<>>
  /\ backupFile = <<>>
  /\ settingsBefore = <<>>
  /\ fsLog = <<>>
  /\ lastRun = <<>>
  /\ runs = 0

\* the worker's POST /api/receipts for one client IP
VARIABLES
  now,            \* Date.now() of the worker, in milliseconds
  kv,             \* the RATE_LIMITS entry of the client: <<>> or the entry
  request,        \* each request in flight: where it stands, what it read
  served,         \* how many requests were answered
  allowedAt,      \* the allowed requests: their time and their window
  response,       \* the status code answered last
  stored          \* how many receipts were put in R2

rateVars == << now, kv, request, served, allowedAt, response, stored >>

\* no request was ever made
RateIdle ==
  /\ now = 0
  /\ kv = <<>>
  /\ request = <<>>
  /\ served = 0
  /\ allowedAt = <<>>
  /\ response = <<>>
  /\ stored = 0

\* readStdinIfAvailable: the pipe, the 100 ms timer and the promise
VARIABLES
  stdin,          \* isTTY, the payload to come, whether the pipe has ended
  data,           \* the chunks received so far
  timer,          \* "none", "armed", "fired" or "cleared"
  resolved        \* the values resolve was called with, in order

stdinVars == << stdin, data, timer, resolved >>

\* readStdinIfAvailable was not called
StdinIdle ==
  /\ stdin = <<>>
  /\ data = <<>>
  /\ timer = "none"
  /\ resolved = <<>>

\* the state of the parts of the program that are studied on their own
sideVars == << spoolVars, nameVars, builderVars, rowVars, setupVars, rateVars,
              stdinVars >>
SideIdle ==
  /\ SpoolIdle /\ NameIdle /\ BuilderIdle /\ RowIdle
  /\ SetupIdle /\ RateIdle /\ StdinIdle

\* what each part studied on its own leaves alone
besideSpool == << nameVars, builderVars, rowVars, setupVars, rateVars, stdinVars >>
besideName == << spoolVars, builderVars, rowVars, setupVars, rateVars, stdinVars >>
besideBuilder == << spoolVars, nameVars, rowVars, setupVars, rateVars, stdinVars >>
besideRow == << spoolVars, nameVars, builderVars, setupVars, rateVars, stdinVars >>
besideSetup == << spoolVars, nameVars, builderVars, rowVars, rateVars, stdinVars >>
besideRate == << spoolVars, nameVars, builderVars, rowVars, setupVars, stdinVars >>
besideStdin == << spoolVars, nameVars, builderVars, rowVars, setupVars, rateVars >>

vars == << sideVars, pc, output, printerOpt, isFromHook, sessionData, receipt,
           outputFormats, idx, errors,
           attempted, completed, exitCode, transport, dispatches, tcpTarget,
           usbIds, ops, dev, thrown, callError, sock, promise, settles,
           flushed, tmpFile, cupsDest, deviceList, endpoints, cupsListing >>

\* what the diagnostics of a failed call are built from
diagVars == << deviceList, endpoints, cupsListing >>

execVars == << output, printerOpt, isFromHook, sessionData, receipt,
               outputFormats, idx, errors,
               attempted, completed, exitCode >>

NoDevice == [open |-> FALSE, claimed |-> FALSE, kernelDriver |-> FALSE]
NoTarget == [host |-> <<>>, port |-> 0]
NoIds == [vid |-> 0, pid |-> 0]
NoSocket == [state |-> "none", reason |-> ""]
NoDeviceList == [ok |-> FALSE, devices |-> <<>>]
NoListing == [ok |-> FALSE, printers |-> <<>>]

Init ==
  /\ pc = "exec_start"
  /\ output \in OutputOptions
  /\ printerOpt \in Destinations
  /\ isFromHook = FALSE
  /\ sessionData = "none"
  /\ receipt = FALSE
  /\ outputFormats = <<>>
  /\ idx = 1
  /\ errors = <<>>
  /\ attempted = <<>>
  /\ completed = {}
  /\ exitCode = "none"
  /\ transport = "none"
  /\ dispatches = 0
  /\ tcpTarget = NoTarget
  /\ usbIds = NoIds
  /\ ops = <<>>
  /\ dev = NoDevice
  /\ thrown = NoError
  /\ callError = NoError
  /\ sock = NoSocket
  /\ promise = "none"
  /\ settles = <<>>
  /\ flushed = FALSE
  /\ tmpFile = FALSE
  /\ cupsDest = <<>>
  /\ deviceList = NoDeviceList
  /\ endpoints = <<>>
  /\ cupsListing = NoListing
  /\ SideIdle

printVars == << transport, dispatches, tcpTarget, usbIds, ops, dev, thrown,
                callError, sock, promise, settles, flushed, tmpFile, cupsDest,
                diagVars >>

(***************************************************************************)
(* GenerateCommand.execute                                                 *)
(***************************************************************************)
\* process.exit(1) from execute's outer catch
Fail ==
  /\ pc' = "exec_done"
  /\ exitCode' = "1"

\* readStdinIfAvailable: the hook payload, or null
ReadStdin ==
  /\ pc = "exec_start"
  /\ isFromHook' \in BOOLEAN
  /\ pc' = "exec_fetch"
  /\ UNCHANGED << output, printerOpt, sessionData, receipt, outputFormats,
                  idx, errors, attempted, completed, exitCode >>
  /\ UNCHANGED printVars
  /\ UNCHANGED sideVars

\* a fetch failure that fails the run whoever started it
FetchFailureExitsOne(fromHook) == "1"

\* catch (err) { if (stdinData) { spinner.stop(); return; } throw err; }:
\* the exit code of a run whose fetch failed
FetchFailureExit(fromHook) == IF fromHook THEN "0" ELSE "1"

\* fetchSessionById / fetchSessionData; a failure ends a hook run silently
\* and fails a manual run
FetchSession ==
  /\ pc = "exec_fetch"
  /\ \E ok \in BOOLEAN :
       IF ok
       THEN /\ sessionData' = "fetched"
            /\ pc' = "exec_receipt"
            /\ UNCHANGED exitCode
       ELSE /\ sessionData' = "failed"
            /\ pc' = "exec_done"
            /\ exitCode' = FetchFailureExit(isFromHook)
  /\ UNCHANGED << output, printerOpt, isFromHook, receipt, outputFormats, idx,
                  errors, attempted, completed >>
  /\ UNCHANGED printVars
  /\ UNCHANGED sideVars

\* transcript path, parseTranscript, location, generateReceipt, then the
\* list of output formats
GenerateReceipt ==
  /\ pc = "exec_receipt"
  /\ \E ok \in BOOLEAN :
       IF ok
       THEN /\ receipt' = TRUE
            /\ outputFormats' = OutputFormatsFor(output, isFromHook)
            /\ pc' = "exec_loop"
            /\ UNCHANGED exitCode
       ELSE Fail /\ UNCHANGED << receipt, outputFormats >>
  /\ idx' = 1
  /\ UNCHANGED << output, printerOpt, isFromHook, sessionData, errors,
                  attempted, completed >>
  /\ UNCHANGED printVars
  /\ UNCHANGED sideVars

InLoop(format) ==
  /\ pc = "exec_loop"
  /\ idx <= Len(outputFormats)
  /\ outputFormats[idx] = format

\* the catch of one iteration: errors.push({ format, error })
Caught(format, error) ==
  errors' = Append(errors, [format |-> format, error |-> error])

\* case "printer": outputToPrinter up to the call of printReceipt
OutputToPrinter ==
  /\ InLoop("printer")
  /\ attempted' = Append(attempted, "printer")
  /\ IF printerOpt = NoPrinter
     THEN /\ Caught("printer", Err("NoPrinter", ""))
          /\ idx' = idx + 1
          /\ pc' = "exec_loop"
     ELSE /\ pc' = "print"
          /\ UNCHANGED << errors, idx >>
  /\ UNCHANGED << output, printerOpt, isFromHook, sessionData, receipt,
                  outputFormats, completed,
                  exitCode >>
  /\ UNCHANGED printVars
  /\ UNCHANGED sideVars

\* case "html": outputToHtml; saving the file may fail, opening the browser
\* may not
OutputToHtml ==
  /\ InLoop("html")
  /\ attempted' = Append(attempted, "html")
  /\ \E ok \in BOOLEAN :
       IF ok
       THEN completed' = completed \cup {"html"} /\ UNCHANGED errors
       ELSE Caught("html", Err("HtmlSaveFailed", "")) /\ UNCHANGED completed
  /\ idx' = idx + 1
  /\ UNCHANGED << pc, output, printerOpt, isFromHook, sessionData, receipt,
                  outputFormats, exitCode >>
  /\ UNCHANGED printVars
  /\ UNCHANGED sideVars

\* case "console": outputToConsole
OutputToConsole ==
  /\ InLoop("console")
  /\ attempted' = Append(attempted, "console")
  /\ completed' = completed \cup {"console"}
  /\ idx' = idx + 1
  /\ UNCHANGED << pc, output, printerOpt, isFromHook, sessionData, receipt,
                  outputFormats, errors,
                  exitCode >>
  /\ UNCHANGED printVars
  /\ UNCHANGED sideVars

\* after the loop: fail when every output failed
ExecCheck ==
  /\ pc = "exec_loop"
  /\ idx > Len(outputFormats)
  /\ pc' = "exec_done"
  /\ exitCode' = IF AllOutputsFailed(errors, outputFormats) THEN "1" ELSE "0"
  /\ UNCHANGED << output, printerOpt, isFromHook, sessionData, receipt,
                  outputFormats, idx, errors,
                  attempted, completed >>
  /\ UNCHANGED printVars
  /\ UNCHANGED sideVars

(***************************************************************************)
(* ThermalPrinterRenderer.printReceipt                                     *)
(***************************************************************************)
Call(op) == ops' = Append(ops, op)

\* buildReceipt, then the dispatch on the destination string
PrintReceipt ==
  /\ pc = "print"
  /\ transport' = TransportFor(printerOpt)
  /\ dispatches' = dispatches + 1
  /\ pc' = CASE transport' = "tcp" -> "tcp_start"
            [] transport' = "usb" -> "usb_start"
            [] OTHER -> "cups_start"
  /\ UNCHANGED << tcpTarget, usbIds, ops, dev, thrown, callError, sock,
                  promise, settles, flushed, tmpFile, cupsDest >>
  /\ UNCHANGED execVars
  /\ UNCHANGED diagVars
  /\ UNCHANGED sideVars

\* a print call that dispatches again after a failed transport
RetryAfterFailure(error) ==
  IF error /= NoError THEN "print" ELSE "exec_loop"

\* printReceipt awaits the one transport it dispatched and returns or
\* rethrows: whatever the outcome, control is back in the loop of execute
AfterAttempt(error) == "exec_loop"

\* the print call is over: back in outputToPrinter and the loop's try/catch
PrintReturn ==
  /\ pc = "print_return"
  /\ IF callError = NoError
     THEN completed' = completed \cup {"printer"} /\ UNCHANGED errors
     ELSE Caught("printer", callError) /\ UNCHANGED completed
  /\ idx' = idx + 1
  /\ pc' = AfterAttempt(callError)
  /\ UNCHANGED << output, printerOpt, isFromHook, sessionData, receipt,
                  outputFormats, attempted,
                  exitCode >>
  /\ UNCHANGED printVars
  /\ UNCHANGED sideVars

(***************************************************************************)
(* sendViaTcp.  A promise is settled by the first resolve or reject; the   *)
(* later ones change nothing.                                              *)
(***************************************************************************)
Resolve ==
  /\ settles' = Append(settles, "resolve")
  /\ promise' = IF promise = "pending" THEN "resolved" ELSE promise
  /\ UNCHANGED callError

Reject(error) ==
  /\ settles' = Append(settles, "reject")
  /\ promise' = IF promise = "pending" THEN "rejected" ELSE promise
  /\ callError' = IF promise = "pending" THEN error ELSE callError

\* the promise executor: new URL(address), createConnection, on("error")
TcpStart ==
  /\ pc = "tcp_start"
  /\ pc' = "tcp_await"
  /\ IF UrlValid(printerOpt)
     THEN /\ tcpTarget' = [host |-> UrlHostname(printerOpt),
                           port |-> TcpPortOf(printerOpt)]
          /\ sock' = [state |-> "connecting", reason |-> ""]
          /\ Call("createConnection")
          /\ promise' = "pending"
          /\ UNCHANGED << settles, callError >>
     ELSE \* new URL throws inside the executor: the promise is rejected
          /\ promise' = "rejected"
          /\ callError' = Err("InvalidURL", "")
          /\ settles' = Append(settles, "throw")
          /\ UNCHANGED << tcpTarget, sock, ops >>
  /\ UNCHANGED << transport, dispatches, usbIds, dev, thrown, flushed, tmpFile,
                  cupsDest >>
  /\ UNCHANGED execVars
  /\ UNCHANGED diagVars
  /\ UNCHANGED sideVars

\* the connect listener: socket.end(buffer, callback)
TcpConnected ==
  /\ sock.state = "connecting"
  /\ exitCode /= "1"
  /\ sock' = [sock EXCEPT !.state = "ending"]
  /\ Call("end")
  /\ UNCHANGED << pc, transport, dispatches, tcpTarget, usbIds, dev, thrown,
                  callError, promise, settles, flushed, tmpFile, cupsDest >>
  /\ UNCHANGED execVars
  /\ UNCHANGED diagVars
  /\ UNCHANGED sideVars

\* the write was flushed: end's callback runs, without an error
TcpFinished ==
  /\ sock.state = "ending"
  /\ exitCode /= "1"
  /\ sock' = [sock EXCEPT !.state = "finished"]
  /\ flushed' = TRUE
  /\ Resolve
  /\ UNCHANGED << pc, transport, dispatches, tcpTarget, usbIds, ops, dev,
                  thrown, tmpFile, cupsDest >>
  /\ UNCHANGED execVars
  /\ UNCHANGED diagVars
  /\ UNCHANGED sideVars

\* the socket fails while the write is pending: the stream is destroyed and
\* end's callback runs with the error (Node >= 15: "the callback is invoked
\* before 'finish' or on error"; README.md requires Node >= 22) before the
\* 'error' event is emitted.  The callback of the code takes no argument.
TcpEndCallbackError ==
  /\ sock.state = "ending"
  /\ exitCode /= "1"
  /\ \E reason \in WriteReasons :
       sock' = [state |-> "destroyed", reason |-> reason]
  /\ Resolve
  /\ UNCHANGED << pc, transport, dispatches, tcpTarget, usbIds, ops, dev,
                  thrown, flushed, tmpFile, cupsDest >>
  /\ UNCHANGED execVars
  /\ UNCHANGED diagVars
  /\ UNCHANGED sideVars

\* the 'error' listener: reject(new Error(`TCP printer connection failed:
\* ${err.message}`)).  The event follows a failed connect, a destroyed
\* stream, or a reset after the write was flushed.
TcpErrorEvent ==
  /\ sock.state \in {"connecting", "destroyed", "finished"}
  /\ exitCode /= "1"
  /\ \E reason \in ConnectReasons \cup WriteReasons :
       /\ sock.state = "connecting" => reason \in ConnectReasons
       /\ sock.state = "destroyed" => reason = sock.reason
       /\ sock.state = "finished" => reason \in WriteReasons
       /\ sock' = [state |-> "errored", reason |-> reason]
       /\ Reject(Err("ConnectionFailed", reason))
  /\ UNCHANGED << pc, transport, dispatches, tcpTarget, usbIds, ops, dev,
                  thrown, flushed, tmpFile, cupsDest >>
  /\ UNCHANGED execVars
  /\ UNCHANGED diagVars
  /\ UNCHANGED sideVars

\* printReceipt's await of the promise ends
TcpReturn ==
  /\ pc = "tcp_await"
  /\ promise \in {"resolved", "rejected"}
  /\ pc' = "print_return"
  /\ UNCHANGED printVars
  /\ UNCHANGED execVars
  /\ UNCHANGED sideVars

(***************************************************************************)
(* sendViaUsb                                                              *)
(***************************************************************************)
usbFrame == << transport, dispatches, tcpTarget, sock, promise, settles,
               flushed, tmpFile, cupsDest >>

\* an exception that leaves sendViaUsb without running the finally clause
ThrowPastFinally(error) ==
  /\ thrown' = error
  /\ pc' = "print_return"

\* an exception leaves the try block: the finally clause runs next
Throw(error) ==
  /\ thrown' = error
  /\ pc' = "usb_finally"

\* import("usb"), the ID pair of the destination, findByIds, and the
\* listing of the visible devices when none matches
UsbFind ==
  /\ pc = "usb_start"
  /\ \E ids \in {UsbIdsFor(printerOpt)}, imported \in BOOLEAN,
        visible \in Registries, listed \in BOOLEAN :
       /\ usbIds' = ids
       /\ IF ~imported
          THEN /\ callError' = Err("ImportFailed", "usb")
               /\ pc' = "print_return"
               /\ UNCHANGED << ops, deviceList >>
          ELSE IF FindByIds(visible, ids)
          THEN /\ ops' = ops \o <<"findByIds">>
               /\ pc' = "usb_open"
               /\ UNCHANGED << callError, deviceList >>
          ELSE /\ ops' = ops \o <<"findByIds", "getDeviceList">>
               /\ pc' = "print_return"
               /\ deviceList' = IF listed
                                 THEN [ok |-> TRUE, devices |-> visible]
                                 ELSE NoDeviceList
               /\ callError' = IF listed THEN DeviceNotFound(ids, visible)
                                ELSE Err("UsbError", "getDeviceList")
  /\ UNCHANGED << dev, thrown, endpoints, cupsListing >>
  /\ UNCHANGED usbFrame
  /\ UNCHANGED execVars
  /\ UNCHANGED sideVars

\* device.open(), before the try block
UsbOpen ==
  /\ pc = "usb_open"
  /\ Call("open")
  /\ \E ok \in BOOLEAN, driver \in BOOLEAN :
       IF ok
       THEN /\ dev' = [open |-> TRUE, claimed |-> FALSE, kernelDriver |-> driver]
            /\ pc' = "usb_detach"
            /\ UNCHANGED callError
       ELSE /\ callError' = Err("UsbError", "open")
            /\ pc' = "print_return"
            /\ UNCHANGED dev
  /\ UNCHANGED << usbIds, thrown >>
  /\ UNCHANGED usbFrame
  /\ UNCHANGED execVars
  /\ UNCHANGED diagVars
  /\ UNCHANGED sideVars

\* a check that never sees the kernel driver
DriverNeverActive(device) == FALSE

\* iface.isKernelDriverActive()
IsKernelDriverActive(device) == device.kernelDriver

\* device.interface(0); if (iface.isKernelDriverActive()) detachKernelDriver()
UsbDetach ==
  /\ pc = "usb_detach"
  /\ \E ok \in BOOLEAN :
       IF IsKernelDriverActive(dev)
       THEN /\ ops' = ops \o <<"interface", "detachKernelDriver">>
            /\ IF ok
               THEN /\ dev' = [dev EXCEPT !.kernelDriver = FALSE]
                    /\ pc' = "usb_claim"
                    /\ UNCHANGED thrown
               ELSE Throw(Err("UsbError", "detachKernelDriver")) /\ UNCHANGED dev
       ELSE /\ ops' = ops \o <<"interface">>
            /\ IF ok
               THEN pc' = "usb_claim" /\ UNCHANGED thrown
               ELSE Throw(Err("UsbError", "interface"))
            /\ UNCHANGED dev
  /\ UNCHANGED << usbIds, callError >>
  /\ UNCHANGED usbFrame
  /\ UNCHANGED execVars
  /\ UNCHANGED diagVars
  /\ UNCHANGED sideVars

\* iface.claim()
UsbClaim ==
  /\ pc = "usb_claim"
  /\ Call("claim")
  /\ \E ok \in BOOLEAN :
       IF ok
       THEN /\ dev' = [dev EXCEPT !.claimed = TRUE]
            /\ pc' = "usb_endpoint"
            /\ UNCHANGED thrown
       ELSE Throw(Err("UsbError", "claim")) /\ UNCHANGED dev
  /\ UNCHANGED << usbIds, callError >>
  /\ UNCHANGED usbFrame
  /\ UNCHANGED execVars
  /\ UNCHANGED diagVars
  /\ UNCHANGED sideVars

\* iface.endpoints.find(ep instanceof OutEndpoint)
UsbEndpoint ==
  /\ pc = "usb_endpoint"
  /\ Call("endpoints")
  /\ \E eps \in EndpointSets :
       /\ endpoints' = eps
       /\ IF HasOutEndpoint(eps)
          THEN pc' = "usb_transfer" /\ UNCHANGED thrown
          ELSE Throw(EndpointNotFound(eps))
  /\ UNCHANGED << usbIds, dev, callError, deviceList, cupsListing >>
  /\ UNCHANGED usbFrame
  /\ UNCHANGED execVars
  /\ UNCHANGED sideVars

\* await outEndpoint.transferAsync(buffer)
UsbTransfer ==
  /\ pc = "usb_transfer"
  /\ Call("transfer")
  /\ \E ok \in BOOLEAN :
       IF ok
       THEN pc' = "usb_release" /\ UNCHANGED thrown
       ELSE Throw(Err("UsbError", "transfer"))
  /\ UNCHANGED << usbIds, dev, callError >>
  /\ UNCHANGED usbFrame
  /\ UNCHANGED execVars
  /\ UNCHANGED diagVars
  /\ UNCHANGED sideVars

\* await iface.releaseAsync(), the last statement of the try block
UsbRelease ==
  /\ pc = "usb_release"
  /\ Call("release")
  /\ \E ok \in BOOLEAN :
       IF ok
       THEN /\ dev' = [dev EXCEPT !.claimed = FALSE]
            /\ pc' = "usb_finally"
            /\ UNCHANGED thrown
       ELSE Throw(Err("UsbError", "release")) /\ UNCHANGED dev
  /\ UNCHANGED << usbIds, callError >>
  /\ UNCHANGED usbFrame
  /\ UNCHANGED execVars
  /\ UNCHANGED diagVars
  /\ UNCHANGED sideVars

\* finally { device.close() }: an exception of close replaces the one in
\* flight; otherwise the one in flight, if any, is rethrown
UsbFinallyOutcome(closed) ==
  IF closed THEN thrown ELSE Err("UsbError", "close")

UsbFinally ==
  /\ pc = "usb_finally"
  /\ Call("close")
  /\ \E closed \in BOOLEAN :
       /\ dev' = [dev EXCEPT !.open = ~closed]
       /\ callError' = UsbFinallyOutcome(closed)
  /\ pc' = "print_return"
  /\ UNCHANGED << usbIds, thrown >>
  /\ UNCHANGED usbFrame
  /\ UNCHANGED execVars
  /\ UNCHANGED diagVars
  /\ UNCHANGED sideVars

(***************************************************************************)
(* sendViaCups                                                             *)
(***************************************************************************)
cupsFrame == << transport, dispatches, tcpTarget, usbIds, dev, sock, promise,
                settles, flushed >>

\* execAsync(`lpstat -p "${printerName}"`) is started
CupsStatus ==
  /\ pc = "cups_start"
  /\ Call("lpstat")
  /\ cupsDest' = printerOpt
  /\ pc' = "cups_status_wait"
  /\ UNCHANGED << thrown, callError, tmpFile >>
  /\ UNCHANGED cupsFrame
  /\ UNCHANGED execVars
  /\ UNCHANGED diagVars
  /\ UNCHANGED sideVars

\* a status failure that is swallowed: the call goes on to write and submit
AfterStatusFailureFallsThrough == "cups_write"

\* where sendViaCups goes when the status query failed: the listing of all
\* destinations, then the error
AfterStatusFailure == "cups_list_wait"

\* the status query returns; after a failure execAsync("lpstat -p") is started
LpstatReturns ==
  /\ pc = "cups_status_wait"
  /\ \E ok \in BOOLEAN :
       IF ok
       THEN pc' = "cups_write" /\ UNCHANGED ops
       ELSE pc' = AfterStatusFailure /\ Call("lpstatAll")
  /\ UNCHANGED << thrown, callError, tmpFile, cupsDest >>
  /\ UNCHANGED cupsFrame
  /\ UNCHANGED execVars
  /\ UNCHANGED diagVars
  /\ UNCHANGED sideVars

\* the listing returns (with names, with none, or failing): the call fails,
\* naming the destination and the alternatives found
LpstatListReturns ==
  /\ pc = "cups_list_wait"
  /\ \E ok \in BOOLEAN, answer \in LpstatAnswers :
       IF ok
       THEN /\ cupsListing' = [ok |-> TRUE, printers |-> answer.printers]
            /\ callError' = NotInCups(cupsDest, AvailablePrinters(answer.stdout))
       ELSE /\ cupsListing' = NoListing
            /\ callError' = NotInCups(cupsDest, <<>>)
  /\ pc' = "print_return"
  /\ UNCHANGED << ops, thrown, tmpFile, cupsDest, deviceList, endpoints >>
  /\ UNCHANGED cupsFrame
  /\ UNCHANGED execVars
  /\ UNCHANGED sideVars

\* try { await writeFile(tmpFile, buffer); then lp is started.  A failed
\* write may leave a file behind.
CupsWrite ==
  /\ pc = "cups_write"
  /\ \E ok \in BOOLEAN, partial \in BOOLEAN :
       IF ok
       THEN /\ tmpFile' = TRUE
            /\ ops' = ops \o <<"writeFile", "lp">>
            /\ pc' = "cups_lp_wait"
            /\ UNCHANGED thrown
       ELSE /\ tmpFile' = partial
            /\ Call("writeFile")
            /\ thrown' = Err("WriteFailed", "")
            /\ pc' = "cups_finally"
  /\ UNCHANGED << callError, cupsDest >>
  /\ UNCHANGED cupsFrame
  /\ UNCHANGED execVars
  /\ UNCHANGED diagVars
  /\ UNCHANGED sideVars

\* an lp failure that leaves sendViaCups without the finally clause
AfterLpFailureSkipsCleanup == "print_return"

\* where the try block goes when lp failed
AfterLpFailure == "cups_finally"

\* execAsync(`lp -d ... -o raw ...`) returns
LpReturns ==
  /\ pc = "cups_lp_wait"
  /\ \E ok \in BOOLEAN :
       IF ok
       THEN pc' = "cups_finally" /\ UNCHANGED thrown
       ELSE pc' = AfterLpFailure /\ thrown' = Err("SubmissionFailed", "")
  /\ UNCHANGED << ops, callError, tmpFile, cupsDest >>
  /\ UNCHANGED cupsFrame
  /\ UNCHANGED execVars
  /\ UNCHANGED diagVars
  /\ UNCHANGED sideVars

\* finally { try { await unlink(tmpFile) } catch {} }: what leaves the
\* finally clause is the exception of the try block, if any
CupsFinallyOutcome(unlinked) == thrown

CupsFinally ==
  /\ pc = "cups_finally"
  /\ Call("unlink")
  /\ \E unlinked \in BOOLEAN :
       /\ unlinked => tmpFile
       /\ tmpFile' = (tmpFile /\ ~unlinked)
       /\ callError' = CupsFinallyOutcome(unlinked)
  /\ pc' = "print_return"
  /\ UNCHANGED << thrown, cupsDest >>
  /\ UNCHANGED cupsFrame
  /\ UNCHANGED execVars
  /\ UNCHANGED diagVars
  /\ UNCHANGED sideVars

(***************************************************************************)
(* Specifications.                                                         *)
(***************************************************************************)
\* the steps of the program
Program ==
  \/ ReadStdin \/ FetchSession \/ GenerateReceipt
  \/ OutputToPrinter \/ OutputToHtml \/ OutputToConsole \/ ExecCheck
  \/ PrintReceipt \/ PrintReturn
  \/ TcpStart \/ TcpReturn
  \/ UsbFind \/ UsbOpen \/ UsbDetach \/ UsbClaim \/ UsbEndpoint
  \/ UsbTransfer \/ UsbRelease \/ UsbFinally
  \/ CupsStatus \/ CupsWrite \/ CupsFinally

\* the answers of the destination: a socket event, a child process ending
Destination ==
  \/ TcpConnected \/ TcpFinished \/ TcpEndCallbackError \/ TcpErrorEvent
  \/ LpstatReturns \/ LpstatListReturns \/ LpReturns

Next == Program \/ Destination

Spec == Init /\ [][Next]_vars

\* the destinations whose USB ID pair is the default one: what a print call
\* waits for does not depend on the pair it looks for
LiveDestinations == {d \in Destinations : ~StartsWith(d, S_usbColon)}

\* the runs that print as one of three formats
LiveInit ==
  /\ Init
  /\ output = <<"html", "printer", "console">>
  /\ printerOpt \in LiveDestinations

\* the program takes its steps; nothing makes the destination answer
LiveSpec == LiveInit /\ [][Next]_vars /\ WF_vars(Program)

(***************************************************************************)
(* The program at rest: the state the parts studied on their own keep the  *)
(* run of execute in.                                                      *)
(***************************************************************************)
mainVars == << pc, execVars, printVars >>

MainIdle ==
  /\ pc = "idle"
  /\ output = Undefined
  /\ printerOpt = NoPrinter
  /\ isFromHook = FALSE
  /\ sessionData = "none"
  /\ receipt = FALSE
  /\ outputFormats = <<>>
  /\ idx = 1
  /\ errors = <<>>
  /\ attempted = <<>>
  /\ completed = {}
  /\ exitCode = "none"
  /\ transport = "none"
  /\ dispatches = 0
  /\ tcpTarget = NoTarget
  /\ usbIds = NoIds
  /\ ops = <<>>
  /\ dev = NoDevice
  /\ thrown = NoError
  /\ callError = NoError
  /\ sock = NoSocket
  /\ promise = "none"
  /\ settles = <<>>
  /\ flushed = FALSE
  /\ tmpFile = FALSE
  /\ cupsDest = <<>>
  /\ deviceList = NoDeviceList
  /\ endpoints = <<>>
  /\ cupsListing = NoListing

(***************************************************************************)
(* Two sendViaCups calls at the same time, after the status check passed:  *)
(* two runs of the program ending together, or two calls of one process.   *)
(* They share the clock and the directory os.tmpdir().                     *)
(***************************************************************************)
\* the last millisecond the clock reaches
MaxClock == 2

\* the calls; the buffer of a call is known by the call's name
SpoolCalls == {"a", "b"}

NoFile == "none"

SpoolInit ==
  /\ MainIdle
  /\ NameIdle /\ BuilderIdle /\ RowIdle
  /\ SetupIdle /\ RateIdle /\ StdinIdle
  /\ clock = 0
  /\ spoolCall = [c \in SpoolCalls |-> [at |-> "name", tmpFile |-> 0,
                                         failed |-> FALSE]]
  /\ tmpdir = [name \in 0..MaxClock |-> NoFile]
  /\ lpJobs = <<>>

\* a millisecond passes
Tick ==
  /\ clock < MaxClock
  /\ clock' = clock + 1
  /\ UNCHANGED << spoolCall, tmpdir, lpJobs >>
  /\ UNCHANGED << mainVars, besideSpool >>

\* const tmpFile = join(tmpdir(), `claude-receipt-${Date.now()}.bin`)
SpoolName(c) ==
  /\ spoolCall[c].at = "name"
  /\ spoolCall' = [spoolCall EXCEPT ![c].at = "write", ![c].tmpFile = clock]
  /\ UNCHANGED << clock, tmpdir, lpJobs >>
  /\ UNCHANGED << mainVars, besideSpool >>

\* await writeFile(tmpFile, buffer): creates the file or replaces its content
SpoolWrite(c) ==
  /\ spoolCall[c].at = "write"
  /\ \E ok \in BOOLEAN :
       IF ok
       THEN /\ tmpdir' = [tmpdir EXCEPT ![spoolCall[c].tmpFile] = c]
            /\ spoolCall' = [spoolCall EXCEPT ![c].at = "lp"]
       ELSE /\ spoolCall' = [spoolCall EXCEPT ![c].at = "unlink",
                                              ![c].failed = TRUE]
            /\ UNCHANGED tmpdir
  /\ UNCHANGED << clock, lpJobs >>
  /\ UNCHANGED << mainVars, besideSpool >>

\* await execAsync(`lp -d "${printerName}" -o raw "${tmpFile}"`): lp reads
\* the file as it is now and queues it, or fails (no file, or refused)
SpoolLp(c) ==
  /\ spoolCall[c].at = "lp"
  /\ \E accepted \in BOOLEAN :
       IF accepted /\ tmpdir[spoolCall[c].tmpFile] /= NoFile
       THEN /\ lpJobs' = Append(lpJobs,
                 [call |-> c, buffer |-> tmpdir[spoolCall[c].tmpFile]])
            /\ spoolCall' = [spoolCall EXCEPT ![c].at = "unlink"]
       ELSE /\ spoolCall' = [spoolCall EXCEPT ![c].at = "unlink",
                                              ![c].failed = TRUE]
            /\ UNCHANGED lpJobs
  /\ UNCHANGED << clock, tmpdir >>
  /\ UNCHANGED << mainVars, besideSpool >>

\* finally { try { await unlink(tmpFile) } catch {} }
SpoolUnlink(c) ==
  /\ spoolCall[c].at = "unlink"
  /\ tmpdir' = [tmpdir EXCEPT ![spoolCall[c].tmpFile] = NoFile]
  /\ spoolCall' = [spoolCall EXCEPT ![c].at = "done"]
  /\ UNCHANGED << clock, lpJobs >>
  /\ UNCHANGED << mainVars, besideSpool >>

SpoolNext ==
  \/ Tick
  \/ \E c \in SpoolCalls : SpoolName(c)
  \/ \E c \in SpoolCalls : SpoolWrite(c)
  \/ \E c \in SpoolCalls : SpoolLp(c)
  \/ \E c \in SpoolCalls : SpoolUnlink(c)

SpoolSpec == SpoolInit /\ [][SpoolNext]_vars

(***************************************************************************)
(* getModelName: the display name of a model identifier, as each renderer  *)
(* computes it.                                                            *)
(***************************************************************************)
\* the digits of the date suffix: /-\d{8}$/
DATE_DIGITS == 8

IsDigit(c) == \E i \in 1..Len(Digits) : Digits[i] = c

\* model.replace(/-\d{8}$/, ""): a hyphen and exactly eight digits at the end
StripDateSuffix(model) ==
  LET n == Len(model)
  IN  IF /\ n > DATE_DIGITS
         /\ model[n - DATE_DIGITS] = "-"
         /\ \A i \in (n - DATE_DIGITS + 1)..n : IsDigit(model[i])
      THEN SubSeq(model, 1, n - DATE_DIGITS - 1)
      ELSE model

\* the table of ThermalPrinterRenderer.getModelName and of
\* ReceiptGenerator.getModelName
ShortModelMap ==
  (<<"c", "l", "a", "u", "d", "e", "-", "s", "o", "n", "n", "e", "t", "-", "4", "-", "5">>
         :> <<"C", "l", "a", "u", "d", "e", " ", "S", "o", "n", "n", "e", "t", " ", "4", ".", "5">>)
    @@ (<<"c", "l", "a", "u", "d", "e", "-", "o", "p", "u", "s", "-", "4", "-", "5">>
         :> <<"C", "l", "a", "u", "d", "e", " ", "O", "p", "u", "s", " ", "4", ".", "5">>)
    @@ (<<"c", "l", "a", "u", "d", "e", "-", "3", "-", "5", "-", "s", "o", "n", "n", "e", "t">>
         :> <<"C", "l", "a", "u", "d", "e", " ", "3", ".", "5", " ", "S", "o", "n", "n", "e", "t">>)
    @@ (<<"c", "l", "a", "u", "d", "e", "-", "3", "-", "o", "p", "u", "s">>
         :> <<"C", "l", "a", "u", "d", "e", " ", "3", " ", "O", "p", "u", "s">>)
    @@ (<<"c", "l", "a", "u", "d", "e", "-", "3", "-", "h", "a", "i", "k", "u">>
         :> <<"C", "l", "a", "u", "d", "e", " ", "3", " ", "H", "a", "i", "k", "u">>)

\* the table of HtmlRenderer.getModelName and of the public page's
\* getModelName: the same, and claude-haiku-4-5
LongModelMap ==
  ShortModelMap
    @@ (<<"c", "l", "a", "u", "d", "e", "-", "h", "a", "i", "k", "u", "-", "4", "-", "5">>
         :> <<"C", "l", "a", "u", "d", "e", " ", "H", "a", "i", "k", "u", " ", "4", ".", "5">>)

\* thermal printer, HTML file, plain-text receipt, public page
Renderers == {"thermal", "html", "text", "page"}

ModelMapOf(renderer) ==
  IF renderer \in {"html", "page"} THEN LongModelMap ELSE ShortModelMap

\* names that every object literal inherits from Object.prototype
ObjectPrototypeMembers ==
  { <<"c", "o", "n", "s", "t", "r", "u", "c", "t", "o", "r">>,
    <<"t", "o", "S", "t", "r", "i", "n", "g">> }

\* what such a name yields: a function, not a string
InheritedMember == <<"[Function]">>

\* calling .replace on a value that is no string
TypeError == <<"TypeError">>

\* modelMap[cleaned]: an own property, else a member inherited from
\* Object.prototype, else undefined
Lookup(map, key) ==
  IF key \in DOMAIN map THEN map[key]
  ELSE IF key \in ObjectPrototypeMembers THEN InheritedMember
  ELSE Undefined

\* const cleaned = model.replace(/-\d{8}$/, "");
\* return modelMap[cleaned] || model
GetModelNameWith(map, model) ==
  IF model \in {InheritedMember, TypeError} THEN TypeError
  ELSE LET found == Lookup(map, StripDateSuffix(model))
       IN  IF found = Undefined THEN model ELSE found

GetModelName(renderer, model) == GetModelNameWith(ModelMapOf(renderer), model)

S_date == <<"-", "2", "0", "2", "5", "0", "9", "2", "9">>

\* the identifiers handed to getModelName: every key with and without a
\* date, unknown identifiers, near-dates, names of Object.prototype
ModelIds ==
  LET opus3 == <<"c", "l", "a", "u", "d", "e", "-", "3", "-", "o", "p", "u", "s">>
      unknown == <<"f", "o", "o", "-", "b", "a", "r">>
  IN  DOMAIN LongModelMap
        \cup { k \o S_date : k \in DOMAIN LongModelMap }
        \cup { unknown, unknown \o S_date,
               opus3 \o <<"-", "2", "0", "2", "5", "0", "9", "2">>,
               opus3 \o S_date \o <<"1">>,
               opus3 \o S_date \o S_date,
               ShortModelMap[opus3],
               <<>> }
        \cup ObjectPrototypeMembers

NameInit ==
  /\ MainIdle
  /\ SpoolIdle /\ BuilderIdle /\ RowIdle
  /\ SetupIdle /\ RateIdle /\ StdinIdle
  /\ modelId \in ModelIds
  /\ shown = [r \in Renderers |-> <<>>]

\* the most applications of getModelName in a row
MaxApplications == 2

\* the renderer applies getModelName: to the identifier, then to its own
\* last result
Render(r) ==
  /\ Len(shown[r]) < MaxApplications
  /\ shown' = [shown EXCEPT ![r] =
        Append(@, GetModelName(r, IF @ = <<>> THEN modelId ELSE @[Len(@)]))]
  /\ UNCHANGED modelId
  /\ UNCHANGED << mainVars, besideName >>

NameNext == \E r \in Renderers : Render(r)

NameSpec == NameInit /\ [][NameNext]_vars

(***************************************************************************)
(* ThermalPrinterRenderer.buildReceipt: the calls it makes on the          *)
(* EscPosBuilder, in order.  A text is a sequence of characters.           *)
(***************************************************************************)
\* const LEFT_MARGIN_DOTS = 12
LEFT_MARGIN_DOTS == 12

\* the most model breakdowns of a session
MaxModels == 2

\* an optional number: <<>> when the field is absent
Absent == <<>>

\* `x && x > 0` for an optional number
IsPositive(opt) == opt /= Absent /\ opt[1] > 0

\* three digits, zero-padded: a group after a thousands separator
Pad3(n) ==
  IF n < 10 THEN <<"0", "0">> \o Decimal(n)
  ELSE IF n < 100 THEN <<"0">> \o Decimal(n)
  ELSE Decimal(n)

\* formatNumber: num.toLocaleString("en-US")
RECURSIVE FormatNumber(_)
FormatNumber(n) ==
  IF n < 1000 THEN Decimal(n)
  ELSE FormatNumber(n \div 1000) \o <<",">> \o Pad3(n % 1000)

\* formatCurrency: `$${amount.toFixed(2)}`, the amount counted in cents
FormatCurrency(cents) ==
  <<"$">> \o Decimal(cents \div 100) \o <<".">>
    \o (IF cents % 100 < 10 THEN <<"0">> ELSE <<>>) \o Decimal(cents % 100)

L_INPUT == <<" ", " ", "I", "n", "p", "u", "t", " ", "t", "o", "k", "e", "n", "s">>
L_OUTPUT == <<" ", " ", "O", "u", "t", "p", "u", "t", " ", "t", "o", "k", "e", "n", "s">>
L_CACHE_WRITE == <<" ", " ", "C", "a", "c", "h", "e", " ", "w", "r", "i", "t", "e">>
L_CACHE_READ == <<" ", " ", "C", "a", "c", "h", "e", " ", "r", "e", "a", "d">>
L_TOTAL == <<"T", "O", "T", "A", "L">>

\* the model breakdowns a session can have
Breakdowns ==
  [ modelName : { <<"c", "l", "a", "u", "d", "e", "-", "s", "o", "n", "n", "e", "t", "-", "4", "-", "5">>
                    \o S_date,
                  <<"f", "o", "o", "-", "b", "a", "r">> },
    inputTokens : {0, 1200},
    outputTokens : {0, 5},
    cacheCreationTokens : {Absent, <<0>>, <<7>>},
    cacheReadTokens : {<<0>>, <<7>>},
    cost : {123} ]

\* one call on the builder
Cmd(op, args) == [op |-> op, args |-> args]

\* getMainModel, without the modelsUsed of the session
GetMainModel(breakdowns) ==
  IF Len(breakdowns) > 0
  THEN GetModelName("thermal", breakdowns[1].modelName)
  ELSE <<"C", "l", "a", "u", "d", "e">>

\* logo(): align center, then the five rows of block characters
Logo ==
  <<Cmd("align", <<"center">>)>> \o [r \in 1..5 |-> Cmd("logoRow", <<r>>)]

\* init, left margin, logo, then location, session and date, centered
HeaderSection ==
  << Cmd("init", <<>>), Cmd("leftMargin", <<LEFT_MARGIN_DOTS>>) >>
  \o Logo
  \o << Cmd("line", <<>>), Cmd("align", <<"center">>),
        Cmd("line", <<<<"L", "o", "c", "a", "t", "i", "o", "n", ":", " ">>>>),
        Cmd("line", <<<<"S", "e", "s", "s", "i", "o", "n", ":", " ">>>>),
        Cmd("line", <<<<"S", "e", "p", " ", "2", "9">>>>),
        Cmd("line", <<>>),
        Cmd("align", <<"left">>), Cmd("drawLine", <<"=">>) >>

\* one token row when the condition of the category holds
TokenRow(emitted, label, count) ==
  IF emitted THEN <<Cmd("leftRight", <<label, FormatNumber(count)>>)>>
  ELSE <<>>

\* token rows for the categories with a non-zero count only
TokenRowsNonZeroOnly(model) ==
  TokenRow(model.inputTokens > 0, L_INPUT, model.inputTokens)
    \o TokenRow(model.outputTokens > 0, L_OUTPUT, model.outputTokens)
    \o TokenRow(IsPositive(model.cacheCreationTokens), L_CACHE_WRITE,
                IF IsPositive(model.cacheCreationTokens)
                THEN model.cacheCreationTokens[1] ELSE 0)
    \o TokenRow(IsPositive(model.cacheReadTokens), L_CACHE_READ,
                IF IsPositive(model.cacheReadTokens)
                THEN model.cacheReadTokens[1] ELSE 0)

\* the token rows of one model: input and output always, a cache row when
\* its count is present and positive
TokenRows(model) ==
  TokenRow(TRUE, L_INPUT, model.inputTokens)
    \o TokenRow(TRUE, L_OUTPUT, model.outputTokens)
    \o TokenRow(IsPositive(model.cacheCreationTokens), L_CACHE_WRITE,
                IF IsPositive(model.cacheCreationTokens)
                THEN model.cacheCreationTokens[1] ELSE 0)
    \o TokenRow(IsPositive(model.cacheReadTokens), L_CACHE_READ,
                IF IsPositive(model.cacheReadTokens)
                THEN model.cacheReadTokens[1] ELSE 0)

\* the body of `for (const model of data.sessionData.modelBreakdowns)`
ModelSection(model) ==
  << Cmd("bold", <<"on">>),
     Cmd("leftRight", << GetModelName("thermal", model.modelName),
                         FormatCurrency(model.cost) >>),
     Cmd("bold", <<"off">>),
     Cmd("drawLine", <<"-">>) >>
  \o TokenRows(model)
  \o << Cmd("line", <<>>), Cmd("drawLine", <<"=">>) >>

RECURSIVE ModelSections(_)
ModelSections(breakdowns) ==
  IF breakdowns = <<>> THEN <<>>
  ELSE ModelSection(Head(breakdowns)) \o ModelSections(Tail(breakdowns))

\* the sum of the costs: data.sessionData.totalCost
RECURSIVE TotalCost(_)
TotalCost(breakdowns) ==
  IF breakdowns = <<>> THEN 0
  ELSE Head(breakdowns).cost + TotalCost(Tail(breakdowns))

TotalSection(breakdowns) ==
  << Cmd("bold", <<"on">>),
     Cmd("leftRight", <<L_TOTAL, FormatCurrency(TotalCost(breakdowns))>>),
     Cmd("bold", <<"off">>),
     Cmd("drawLine", <<"=">>), Cmd("line", <<>>) >>

\* a QR block that prints before the data is stored
QrCodePrintsFirst(d, cellSize) ==
  << Cmd("qrModel", <<>>), Cmd("qrCellSize", <<cellSize>>),
     Cmd("qrErrorCorrection", <<>>), Cmd("qrPrint", <<>>),
     Cmd("qrStore", <<(Len(d) + 3) % 256, ((Len(d) + 3) \div 256) % 256>>),
     Cmd("qrData", <<d>>) >>

\* qrCode: model 2, cell size, error correction, store the data, print
QrCode(d, cellSize) ==
  << Cmd("qrModel", <<>>), Cmd("qrCellSize", <<cellSize>>),
     Cmd("qrErrorCorrection", <<>>),
     Cmd("qrStore", <<(Len(d) + 3) % 256, ((Len(d) + 3) \div 256) % 256>>),
     Cmd("qrData", <<d>>), Cmd("qrPrint", <<>>) >>

\* "https://github.com/chrishutchinson/claude-receipts"
REPO_URL ==
  <<"h", "t", "t", "p", "s", ":", "/", "/", "g", "i", "t", "h", "u", "b", ".", "c", "o", "m", "/", "c", "h", "r", "i", "s", "h", "u", "t", "c", "h", "i", "n", "s", "o", "n">>
    \o <<"/", "c", "l", "a", "u", "d", "e", "-", "r", "e", "c", "e", "i", "p", "t", "s">>

\* cashier, thanks, the QR code of the repository, the cut
FooterSection(breakdowns) ==
  << Cmd("align", <<"left">>),
     Cmd("line", <<<<"C", "A", "S", "H", "I", "E", "R", ":", " ">>
                     \o GetMainModel(breakdowns)>>),
     Cmd("line", <<>>), Cmd("align", <<"center">>),
     Cmd("line", <<<<"T", "h", "a", "n", "k", " ", "y", "o", "u", " ", "f", "o", "r", " ", "b", "u", "i", "l", "d", "i", "n", "g", "!">>>>),
     Cmd("line", <<>>),
     Cmd("align", <<"center">>),
     Cmd("line", <<<<"P", "r", "i", "n", "t", " ", "y", "o", "u", "r", " ", "o", "w", "n", " ", "C", "l", "a", "u", "d", "e", " ", "r", "e", "c", "e", "i", "p", "t", "s", ":">>>>) >>
  \o QrCode(REPO_URL, 4)
  \o << Cmd("line", <<<<"g", "i", "t", "h", "u", "b", ".", "c", "o", "m", "/", "c", "h", "r", "i", "s", "h", "u", "t", "c", "h", "i", "n", "s", "o", "n">>>>),
        Cmd("line", <<<<"/", "c", "l", "a", "u", "d", "e", "-", "r", "e", "c", "e", "i", "p", "t", "s">>>>),
        Cmd("line", <<>>),
        Cmd("partialCut", <<>>) >>

BuilderInit ==
  /\ MainIdle
  /\ SpoolIdle /\ NameIdle /\ RowIdle
  /\ SetupIdle /\ RateIdle /\ StdinIdle
  /\ \E n \in 0..MaxModels : modelBreakdowns \in [1..n -> Breakdowns]
  /\ buffer = <<>>

\* buildReceipt, from b.init() to b.partialCut()
BuildReceipt ==
  /\ buffer = <<>>
  /\ buffer' = HeaderSection \o ModelSections(modelBreakdowns)
                 \o TotalSection(modelBreakdowns)
                 \o FooterSection(modelBreakdowns)
  /\ UNCHANGED modelBreakdowns
  /\ UNCHANGED << mainVars, besideBuilder >>

BuilderNext == BuildReceipt

BuilderSpec == BuilderInit /\ [][BuilderNext]_vars

(***************************************************************************)
(* EscPosBuilder.leftRight: the text of the line it appends.               *)
(***************************************************************************)
\* const WIDTH = 40
WIDTH == 40

\* the longest text handed to leftRight
MaxText == 41

\* " ".repeat(n), for any character
Repeat(c, n) == [i \in 1..n |-> c]

\* leftRight with the single space only when the texts overflow the line
LeftRightGapBelowZero(l, r) ==
  LET gap == WIDTH - Len(l) - Len(r)
  IN  IF gap < 0 THEN l \o <<" ">> \o r
      ELSE l \o Repeat(" ", gap) \o r

\* const gap = WIDTH - left.length - right.length;
\* if (gap < 1) return this.line(`${left} ${right}`);
\* return this.line(`${left}${" ".repeat(gap)}${right}`)
LeftRight(l, r) ==
  LET gap == WIDTH - Len(l) - Len(r)
  IN  IF gap < 1 THEN l \o <<" ">> \o r
      ELSE l \o Repeat(" ", gap) \o r

RowInit ==
  /\ MainIdle
  /\ SpoolIdle /\ NameIdle /\ BuilderIdle
  /\ SetupIdle /\ RateIdle /\ StdinIdle
  /\ left \in {Repeat("L", n) : n \in 0..MaxText}
  /\ right \in {Repeat("R", n) : n \in 0..MaxText}
  /\ row = <<>>

\* b.leftRight(left, right)
CallLeftRight ==
  /\ row = <<>>
  /\ row' = LeftRight(left, right)
  /\ UNCHANGED << left, right >>
  /\ UNCHANGED << mainVars, besideRow >>

RowNext == CallLeftRight

RowSpec == RowInit /\ [][RowNext]_vars

(***************************************************************************)
(* SetupCommand: install and uninstall of the SessionEnd hook in           *)
(* ~/.claude/settings.json.  A file is absent (<<>>) or has a content: a   *)
(* text that parses as JSON to a value, with its indentation, or a text    *)
(* that does not parse.  An object is a function from its keys.            *)
(***************************************************************************)
\* the most runs of setup in a row
MaxRuns == 2

\* String.prototype.includes
Includes(s, sub) ==
  \E i \in 1..(Len(s) - Len(sub) + 1) : SubSeq(s, i, i + Len(sub) - 1) = sub

\* Array.prototype.join
RECURSIVE Join(_, _)
Join(list, sep) ==
  IF list = <<>> THEN <<>>
  ELSE IF Len(list) = 1 THEN list[1]
  ELSE list[1] \o sep \o Join(Tail(list), sep)

\* const hookCommand = "npx claude-receipts@latest generate"
HOOK_COMMAND ==
  <<"n", "p", "x", " ", "c", "l", "a", "u", "d", "e", "-", "r", "e", "c", "e", "i", "p", "t", "s", "@", "l", "a", "t", "e", "s", "t", " ", "g", "e", "n", "e", "r", "a", "t", "e">>

S_html == <<"h", "t", "m", "l">>
S_printerFormat == <<"p", "r", "i", "n", "t", "e", "r">>

\* `${hookCommand} --output ${outputArg}`
HookCommandOf(outputs) ==
  HOOK_COMMAND \o <<" ", "-", "-", "o", "u", "t", "p", "u", "t", " ">> \o Join(outputs, <<",">>)

\* { hooks: [{ type: "command", command }, ...] }
HookGroup(commands) ==
  [hooks |-> [i \in 1..Len(commands) |->
                [type |-> "command", command |-> commands[i]]]]

\* h.hooks.some((hook) => hook.command.includes("claude-receipts"))
MentionsReceipts(h) ==
  \E i \in 1..Len(h.hooks) :
    Includes(h.hooks[i].command, <<"c", "l", "a", "u", "d", "e", "-", "r", "e", "c", "e", "i", "p", "t", "s">>)

\* a filter that removes nothing
KeepEveryGroup(groups) == groups

\* SessionEnd.filter((h) => !h.hooks.some(...includes("claude-receipts")))
WithoutReceiptsGroups(groups) ==
  SelectSeq(groups, LAMBDA h : ~MentionsReceipts(h))

\* delete object[key]
Delete(object, key) == [k \in DOMAIN object \ {key} |-> object[k]]

\* object[key] = value
Assign(object, key, value) ==
  [k \in DOMAIN object \cup {key} |-> IF k = key THEN value ELSE object[k]]

\* the content of a file
NoSuchFile == <<>>
Unparsable == [parses |-> FALSE, value |-> <<>>, indent |-> 0]

\* JSON.stringify(settings, null, 2)
JsonStringify(value) == [parses |-> TRUE, value |-> value, indent |-> 2]

\* the settings after addHookToSettings has edited them
WithHookAdded(settings, outputs) ==
  LET hooks == IF "hooks" \in DOMAIN settings THEN settings["hooks"]
               ELSE <<>>
      sessionEnd == IF "SessionEnd" \in DOMAIN hooks THEN hooks["SessionEnd"]
                    ELSE <<>>
      kept == IF \E i \in 1..Len(sessionEnd) : MentionsReceipts(sessionEnd[i])
              THEN WithoutReceiptsGroups(sessionEnd)
              ELSE sessionEnd
  IN  Assign(settings, "hooks",
        Assign(hooks, "SessionEnd",
          Append(kept, HookGroup(<<HookCommandOf(outputs)>>))))

\* the settings after removeHookFromSettings has edited them
WithHookRemoved(settings) ==
  LET hooks == settings["hooks"]
      kept == WithoutReceiptsGroups(hooks["SessionEnd"])
      pruned == IF kept = <<>> THEN Delete(hooks, "SessionEnd")
                ELSE Assign(hooks, "SessionEnd", kept)
  IN  IF DOMAIN pruned = {} THEN Delete(settings, "hooks")
      ELSE Assign(settings, "hooks", pruned)

\* the commands a hook group of the user can hold: the hook of an install,
\* the hook of an older install, a command of the user's own
UserCommands ==
  { HookCommandOf(<<S_html>>),
    <<"c", "l", "a", "u", "d", "e", "-", "r", "e", "c", "e", "i", "p", "t", "s", " ", "g", "e", "n", "e", "r", "a", "t", "e">>,
    <<"e", "c", "h", "o", " ", "b", "y", "e">> }

UserGroups ==
  { HookGroup(c) : c \in UNION {[1..n -> UserCommands] : n \in 1..2} }

\* the hooks object of a settings file
UserHooks ==
  LET sessionEnd == UNION {[1..n -> UserGroups] : n \in 0..2}
      stop == <<HookGroup(<<<<"e", "c", "h", "o", " ", "b", "y", "e">>>>)>>
  IN  { <<>>, [Stop |-> stop] }
        \cup { [SessionEnd |-> s] : s \in sessionEnd }
        \cup { [SessionEnd |-> s, Stop |-> stop] : s \in sessionEnd }

\* the settings files setup can find
UserFiles ==
  { NoSuchFile, Unparsable }
    \cup { [parses |-> TRUE, value |-> v, indent |-> n] :
             v \in {<<>>} \cup { [hooks |-> h] : h \in UserHooks },
             n \in {2, 4} }

\* what the user answers to the prompts: cancelled, or the selected outputs
Cancelled == <<"cancelled">>
Answers ==
  { Cancelled, <<>>, <<S_html>>, <<S_printerFormat>>,
    <<S_html, S_printerFormat>> }

\* answers.outputs.length > 0 ? answers.outputs : ["html"]
OutputsOf(answers) == IF Len(answers) > 0 THEN answers ELSE <<S_html>>

WriteFile(path, content) ==
  [call |-> "writeFile", path |-> path, data |-> content]

SetupInit ==
  /\ MainIdle
  /\ SpoolIdle /\ NameIdle /\ BuilderIdle /\ RowIdle
  /\ RateIdle /\ StdinIdle
  /\ settingsFile \in UserFiles
  /\ backupFile = NoSuchFile
  /\ settingsBefore = NoSuchFile
  /\ fsLog = <<>>
  /\ lastRun = <<>>
  /\ runs = 0

\* the run ends without having written settings.json
EndsEarly(command, outputs, outcome) ==
  /\ lastRun' = [command |-> command, outputs |-> outputs,
                 outcome |-> outcome]
  /\ UNCHANGED settingsFile

\* setup: the prompts, saveConfig, addHookToSettings.  Each library call
\* returns or throws; failAt names the one that throws in this run.
Install ==
  /\ runs < MaxRuns
  /\ runs' = runs + 1
  /\ settingsBefore' = settingsFile
  /\ \E answers \in Answers,
        failAt \in {"none", "saveConfig", "mkdir", "readFile", "writeBackup",
                    "writeSettings"} :
       IF answers = Cancelled
       THEN /\ EndsEarly("install", <<>>, "cancelled")
            /\ fsLog' = <<>>
            /\ UNCHANGED backupFile
       ELSE IF \/ failAt = "saveConfig"
               \/ (failAt = "mkdir" /\ settingsFile = NoSuchFile)
               \/ (failAt = "readFile" /\ settingsFile /= NoSuchFile)
       THEN /\ EndsEarly("install", OutputsOf(answers), "failed")
            /\ fsLog' = <<>>
            /\ UNCHANGED backupFile
       ELSE IF failAt = "writeBackup" /\ settingsFile /= NoSuchFile
       THEN /\ EndsEarly("install", OutputsOf(answers), "failed")
            /\ fsLog' = <<>>
            /\ UNCHANGED backupFile
       ELSE LET exists == settingsFile /= NoSuchFile
                backedUp == IF exists
                            THEN <<WriteFile("backup", settingsFile)>>
                            ELSE <<>>
                settings == IF exists THEN settingsFile.value ELSE <<>>
                edited == JsonStringify(
                            WithHookAdded(settings, OutputsOf(answers)))
            IN  /\ backupFile' = IF exists THEN settingsFile ELSE backupFile
                /\ IF exists /\ ~settingsFile.parses
                   THEN /\ EndsEarly("install", OutputsOf(answers), "failed")
                        /\ fsLog' = backedUp
                   ELSE IF failAt = "writeSettings"
                   THEN /\ EndsEarly("install", OutputsOf(answers), "failed")
                        /\ fsLog' = backedUp
                   ELSE /\ settingsFile' = edited
                        /\ fsLog' = Append(backedUp,
                                           WriteFile("settings", edited))
                        /\ lastRun' = [command |-> "install",
                                       outputs |-> OutputsOf(answers),
                                       outcome |-> "ok"]
  /\ UNCHANGED << mainVars, besideSetup >>

\* setup --uninstall: removeHookFromSettings
Uninstall ==
  /\ runs < MaxRuns
  /\ runs' = runs + 1
  /\ settingsBefore' = settingsFile
  /\ UNCHANGED backupFile
  /\ \E failAt \in {"none", "readFile", "writeSettings"} :
       IF \/ settingsFile = NoSuchFile
          \/ failAt = "readFile"
          \/ ~settingsFile.parses
          \/ "hooks" \notin DOMAIN settingsFile.value
          \/ "SessionEnd" \notin DOMAIN settingsFile.value["hooks"]
          \/ failAt = "writeSettings"
       THEN /\ EndsEarly("uninstall", <<>>, "failed")
            /\ fsLog' = <<>>
       ELSE LET edited == JsonStringify(WithHookRemoved(settingsFile.value))
            IN  /\ settingsFile' = edited
                /\ fsLog' = <<WriteFile("settings", edited)>>
                /\ lastRun' = [command |-> "uninstall", outputs |-> <<>>,
                               outcome |-> "ok"]
  /\ UNCHANGED << mainVars, besideSetup >>

SetupNext == Install \/ Uninstall

SetupSpec == SetupInit /\ [][SetupNext]_vars

(***************************************************************************)
(* The worker: POST /api/receipts of one client IP, src/unnamed/part_002   *)
(* and src/worker/src/lib/rate-limit.ts.  RateSeqSpec has the requests of   *)
(* a client one after the other, the handler being one step.  RateSpec has *)
(* them in flight together: a request is then two steps, the kv.get it     *)
(* awaits and all that follows it.                                         *)
(***************************************************************************)
MaxRequests == 12

MaxInFlight == 2

MaxBurst == 4

RATE_LIMIT == 10

WINDOW_SECONDS == 3600

\* the instants at which the worker's clock is read
Instants == {0, 2, 3600001, 7200001}

\* Math.ceil(a / b) of a non-negative a
Ceil(a, b) == (a + b - 1) \div b

\* no request in this slot
NoRequest == [pc |-> "idle", now |-> 0, existing |-> <<>>]

\* kv.get(key, "json") at time t: null once the entry has expired
KvGet(t) ==
  IF kv = <<>> \/ t >= kv[1].expiresAt
  THEN <<>>
  ELSE << [count |-> kv[1].count, windowStart |-> kv[1].windowStart] >>

\* kv.put(key, entry, { expirationTtl: ttl }) at time t
KvPut(entry, ttl, t) ==
  << [count |-> entry.count, windowStart |-> entry.windowStart,
      expiresAt |-> t + ttl * 1000] >>

\* the first request of a window: a new entry
NewWindow(t) ==
  [allowed |-> TRUE, entry |-> << [count |-> 1, windowStart |-> t] >>,
   ttl |-> WINDOW_SECONDS]

\* checkRateLimit after kv.get: what it answers and what it puts
CheckRateLimit(existing, t) ==
  IF existing = <<>>
  THEN NewWindow(t)
  ELSE LET windowEnd == existing[1].windowStart + WINDOW_SECONDS * 1000
           ttl == Ceil(windowEnd - t, 1000)
       IN IF t > windowEnd
          THEN NewWindow(t)
          ELSE IF existing[1].count >= RATE_LIMIT
               THEN [allowed |-> FALSE, entry |-> <<>>, ttl |-> 0]
               ELSE [allowed |-> TRUE,
                     entry |-> << [count |-> existing[1].count + 1,
                                   windowStart |-> existing[1].windowStart] >>,
                     ttl |-> IF ttl > 0 THEN ttl ELSE 1]

\* what follows the rate limit for an allowed request
Bodies == {"notJson", "invalid", "r2Error", "stored"}

\* the status code answered for an allowed request
StatusOf(body) ==
  CASE body \in {"notJson", "invalid"} -> 400
    [] body = "r2Error" -> 500
    [] OTHER -> 201

InFlight == {i \in DOMAIN request : request[i].pc # "idle"}

\* the handler from the answer of kv.get on: the kv.put, then 429, or the
\* body and the R2 put
Answered(existing, t, body) ==
  LET result == CheckRateLimit(existing, t)
  IN /\ kv' = IF result.entry = <<>>
              THEN kv
              ELSE KvPut(result.entry[1], result.ttl, now)
     /\ allowedAt' =
          IF result.allowed
          THEN Append(allowedAt, [at |-> t,
                                  window |-> result.entry[1].windowStart])
          ELSE allowedAt
     /\ response' = << IF result.allowed THEN StatusOf(body) ELSE 429 >>
     /\ stored' = IF result.allowed /\ body = "stored"
                  THEN stored + 1
                  ELSE stored
     /\ served' = served + 1

\* time passes
TimePasses ==
  /\ \E t \in Instants : t > now /\ now' = t
  /\ UNCHANGED << kv, request, served, allowedAt, response, stored >>
  /\ UNCHANGED << mainVars, besideRate >>

\* ---- the requests one after the other ----

RateSeqInit ==
  /\ MainIdle
  /\ SpoolIdle /\ NameIdle /\ BuilderIdle /\ RowIdle /\ SetupIdle /\ StdinIdle
  /\ RateIdle

\* apiRoutes.post("/receipts"), from the request to its answer
PostReceipts(body) ==
  /\ served < MaxRequests
  /\ Answered(KvGet(now), now, body)
  /\ UNCHANGED << now, request >>
  /\ UNCHANGED << mainVars, besideRate >>

RateSeqNext ==
  \/ TimePasses
  \/ \E body \in Bodies : PostReceipts(body)

RateSeqSpec == RateSeqInit /\ [][RateSeqNext]_vars

\* ---- the requests in flight together ----

\* how many requests the window that started at 0 has counted
PriorCounts == {0, RATE_LIMIT - 1}

RateInit ==
  /\ MainIdle
  /\ SpoolIdle /\ NameIdle /\ BuilderIdle /\ RowIdle /\ SetupIdle /\ StdinIdle
  /\ now = 0
  /\ \E count \in PriorCounts :
       /\ kv = IF count = 0
               THEN <<>>
               ELSE KvPut([count |-> count, windowStart |-> 0],
                          WINDOW_SECONDS, 0)
       /\ allowedAt = [j \in 1..count |-> [at |-> 0, window |-> 0]]
       /\ stored = count
  /\ request = [i \in 1..MaxInFlight |-> NoRequest]
  /\ served = 0
  /\ response = <<>>

\* a request arrives: Date.now() and the awaited kv.get
PostReceiptsGet(i) ==
  /\ request[i].pc = "idle"
  /\ served + Cardinality(InFlight) < MaxBurst
  /\ request' = [request EXCEPT
                   ![i] = [pc |-> "got", now |-> now, existing |-> KvGet(now)]]
  /\ UNCHANGED << now, kv, served, allowedAt, response, stored >>
  /\ UNCHANGED << mainVars, besideRate >>

\* the rest of the handler of that request
PostReceiptsAnswer(i, body) ==
  /\ request[i].pc = "got"
  /\ Answered(request[i].existing, request[i].now, body)
  /\ request' = [request EXCEPT ![i] = NoRequest]
  /\ UNCHANGED now
  /\ UNCHANGED << mainVars, besideRate >>

RateNext ==
  \/ TimePasses
  \/ \E i \in 1..MaxInFlight : PostReceiptsGet(i)
  \/ \E i \in 1..MaxInFlight, body \in Bodies : PostReceiptsAnswer(i, body)

RateSpec == RateInit /\ [][RateNext]_vars

(***************************************************************************)
(* GenerateCommand.readStdinIfAvailable, src/src/commands/generate.ts.     *)
(* The pipe delivers the chunks of what was written to it, then its end;   *)
(* the 100 ms timer fires at any moment between the call and its clearing. *)
(***************************************************************************)
\* what is written to the pipe, as the chunks it arrives in
Documents ==
  { <<>>,
    << <<"{", "}">> >>,
    << <<"{">>, <<"}">> >>,
    << <<"{", "s">>, <<"}">> >>,
    << <<"{">>, <<"s">>, <<"}">> >>,
    << <<"{", "s">>, <<"t">>, <<"}">> >>,
    << <<"{">>, <<"t", "}">> >>,
    << <<"{", "t", "}">> >>,
    << <<"{", "t">>, <<"s", "}">> >>,
    << <<"{", "s">> >>,
    << <<"{">>, <<"{", "}">>, <<"}">> >>,
    << <<"}">> >>,
    << <<"s">>, <<"}">> >> }

\* the chunks of a document put together: data += chunk
RECURSIVE TextOf(_)
TextOf(chunks) ==
  IF chunks = <<>> THEN <<>> ELSE Head(chunks) \o TextOf(Tail(chunks))

\* the promise's value when there is no payload
Null == [null |-> TRUE]

\* JSON.parse(text): the object between the braces, or an exception
JsonParse(text) ==
  IF /\ Len(text) >= 2
     /\ text[1] = "{"
     /\ text[Len(text)] = "}"
     /\ \A k \in 2..(Len(text) - 1) : text[k] \notin {"{", "}"}
  THEN [throws |-> FALSE, value |-> [object |-> SubSeq(text, 2, Len(text) - 1)]]
  ELSE [throws |-> TRUE, value |-> Null]

StdinInit ==
  /\ MainIdle
  /\ SpoolIdle /\ NameIdle /\ BuilderIdle /\ RowIdle /\ SetupIdle /\ RateIdle
  /\ \E isTTY \in BOOLEAN, document \in Documents :
       /\ isTTY => document = <<>>
       /\ stdin = [isTTY |-> isTTY, document |-> document, delivered |-> 0,
                   ended |-> FALSE]
  /\ data = <<>>
  /\ timer = "none"
  /\ resolved = <<>>

\* the call: a terminal resolves null, a pipe arms the timer and listens
ReadStdinIfAvailable ==
  /\ timer = "none"
  /\ resolved = <<>>
  /\ IF stdin.isTTY
     THEN /\ resolved' = << Null >>
          /\ UNCHANGED timer
     ELSE /\ timer' = "armed"
          /\ UNCHANGED resolved
  /\ UNCHANGED << stdin, data >>
  /\ UNCHANGED << mainVars, besideStdin >>

\* setTimeout(() => resolve(null), 100)
OnTimeout ==
  /\ timer = "armed"
  /\ timer' = "fired"
  /\ resolved' = Append(resolved, Null)
  /\ UNCHANGED << stdin, data >>
  /\ UNCHANGED << mainVars, besideStdin >>

\* stdin.on("data", ...)
OnData ==
  /\ timer # "none"
  /\ stdin.delivered < Len(stdin.document)
  /\ data' = data \o stdin.document[stdin.delivered + 1]
  /\ stdin' = [stdin EXCEPT !.delivered = @ + 1]
  /\ UNCHANGED << timer, resolved >>
  /\ UNCHANGED << mainVars, besideStdin >>

\* stdin.on("end", ...)
OnEnd ==
  /\ timer # "none"
  /\ stdin.delivered = Len(stdin.document)
  /\ ~stdin.ended
  /\ stdin' = [stdin EXCEPT !.ended = TRUE]
  /\ timer' = IF timer = "armed" THEN "cleared" ELSE timer
  /\ resolved' = Append(resolved, JsonParse(data).value)
  /\ UNCHANGED data
  /\ UNCHANGED << mainVars, besideStdin >>

StdinNext ==
  \/ ReadStdinIfAvailable
  \/ OnTimeout
  \/ OnData
  \/ OnEnd

StdinSpec == StdinInit /\ [][StdinNext]_vars

(***************************************************************************)
(* Properties.                                                             *)
(***************************************************************************)
PrintPcs ==
  { "print", "tcp_start", "tcp_await", "usb_start", "usb_open", "usb_detach",
    "usb_claim", "usb_endpoint", "usb_transfer", "usb_release", "usb_finally",
    "cups_start", "cups_status_wait", "cups_list_wait", "cups_write",
    "cups_lp_wait", "cups_finally" }

\* the print call was made and has returned to its caller
PrintReturned == dispatches > 0 /\ pc \notin PrintPcs

Has(op) == \E i \in 1..Len(ops) : ops[i] = op
Count(op) == Cardinality({i \in 1..Len(ops) : ops[i] = op})
LastOp == IF ops = <<>> THEN "" ELSE ops[Len(ops)]

\* device.open() was called and returned normally
DeviceWasOpened == Has("open") /\ callError /= Err("UsbError", "open")
\* iface.claim() was called and returned normally
InterfaceWasClaimed == Has("claim") /\ thrown /= Err("UsbError", "claim")

\* C1, as stated: once the device was opened, no print call returns with
\* the device still open.
C1_DeviceClosedOnReturn ==
  (PrintReturned /\ DeviceWasOpened) => ~dev.open

\* C1, amended: once the device was opened, device.close() is called exactly
\* once, as the last library call, before the print call returns on every
\* exit path, and the device is closed unless that call of close itself
\* failed.
C1_CloseCalledOnEveryPath ==
  (PrintReturned /\ DeviceWasOpened) =>
     /\ Count("close") = 1
     /\ LastOp = "close"
     /\ (dev.open => callError = Err("UsbError", "close"))

\* C1 witness: the transfer failed and the print call returned with the
\* device closed.
C1_Witness ==
  /\ PrintReturned
  /\ DeviceWasOpened
  /\ thrown = Err("UsbError", "transfer")
  /\ LastOp = "close"
  /\ ~dev.open

\* C2: once interface 0 was claimed, the claim is released before the print
\* call returns on success, on the endpoint-missing error and on a transfer
\* error (stated for the runs whose device.close() succeeded).
C2_ClaimReleasedOnReturn ==
  ( /\ PrintReturned
    /\ InterfaceWasClaimed
    /\ \/ thrown \in {NoError, Err("UsbError", "transfer")}
       \/ thrown.kind = "EndpointNotFound"
    /\ ~dev.open )
  => (Has("release") /\ ~dev.claimed)

\* C3: when the destination was confirmed (the call got as far as writing
\* the spool file), unlink is called exactly once, as the last library call,
\* before sendViaCups returns: after a submission, a failed submission and
\* a failed write.
C3_UnlinkOnEveryPath ==
  (PrintReturned /\ Has("writeFile")) =>
     /\ Count("unlink") = 1
     /\ LastOp = "unlink"

\* C3 witness: lp failed, and the call returned after unlinking the file.
C3_Witness ==
  /\ PrintReturned
  /\ callError = Err("SubmissionFailed", "")
  /\ LastOp = "unlink"
  /\ ~tmpFile

\* C4, as stated: when the status check fails, the spool file is created and
\* then deleted, no job is submitted, and the call fails.
C4_FileCreatedThenDeleted ==
  (PrintReturned /\ Has("lpstatAll")) =>
     /\ Has("writeFile") /\ Has("unlink")
     /\ ~Has("lp")
     /\ callError /= NoError

\* C4, amended: when the status check fails, no spool file is ever created
\* (and nothing is deleted), no job is ever submitted, and the call fails.
C4_NoFileNoJobOnStatusFailure ==
  Has("lpstatAll") =>
     /\ ~Has("writeFile") /\ ~Has("unlink") /\ ~tmpFile
     /\ ~Has("lp")
     /\ (PrintReturned =>
           /\ callError.kind = "DestinationNotConfigured"
           /\ "printer" \notin completed)

\* C4 witness: the status check failed and the call has failed.
C4_Witness ==
  /\ PrintReturned
  /\ Has("lpstat") /\ Has("lpstatAll")
  /\ callError.kind = "DestinationNotConfigured"

\* C5: a cleanup failure never replaces the original error: the caller
\* receives the transfer or endpoint error of the USB transport whatever
\* close does, the submission error of the spooler whatever unlink does, and
\* no error after a successful submission whatever unlink does.
C5_CleanupNeverMasks ==
  PrintReturned =>
     /\ ( ( /\ transport = "usb"
            /\ \/ thrown = Err("UsbError", "transfer")
               \/ thrown.kind = "EndpointNotFound" )
          => callError = thrown )
     /\ ( (transport = "cups" /\ thrown = Err("SubmissionFailed", ""))
          => callError = thrown )
     /\ ( (transport = "cups" /\ Has("lp") /\ thrown = NoError)
          => callError = NoError )

\* s begins with p, character by character
BeginsWith(s, p) == \A i \in 1..Len(p) : i <= Len(s) /\ s[i] = p[i]

\* C6: the print call dispatches exactly one transport, chosen from the
\* destination string alone: TCP when it begins with tcp:// (to the host
\* and port written in it, port 9100 when none is written), USB when it is
\* usb or begins with usb:, and otherwise the spooler with the whole string
\* as the destination name.
C6_TransportFromDestination ==
  /\ dispatches <= 1
  /\ (dispatches = 0) = (transport = "none")
  /\ transport /= "none" =>
       /\ transport = "tcp" <=> BeginsWith(printerOpt, S_tcp)
       /\ transport = "usb" <=>
            (printerOpt = S_usb \/ BeginsWith(printerOpt, S_usbColon))
       /\ transport = "cups" <=>
            ~( \/ BeginsWith(printerOpt, S_tcp)
               \/ printerOpt = S_usb
               \/ BeginsWith(printerOpt, S_usbColon) )
  /\ transport /= "tcp" => ~Has("createConnection")
  /\ transport /= "usb" => ~Has("findByIds")
  /\ transport /= "cups" => ~Has("lpstat")
  /\ Has("createConnection") =>
       \/ printerOpt = S_tcp \o tcpTarget.host \o <<":">>
                         \o Decimal(tcpTarget.port)
       \/ /\ printerOpt = S_tcp \o tcpTarget.host
          /\ tcpTarget.port = DEFAULT_TCP_PORT
  /\ Has("lpstat") => cupsDest = printerOpt

\* C6 witness: a tcp:// destination without a port is being connected to on
\* port 9100.
C6_Witness ==
  /\ transport = "tcp"
  /\ sock.state = "connecting"
  /\ printerOpt = S_tcp \o tcpTarget.host
  /\ tcpTarget.port = DEFAULT_TCP_PORT

\* a token of hexadecimal digits
IsHex(token) ==
  /\ token /= <<>>
  /\ \A i \in 1..Len(token) : \E d \in 1..16 : HexDigits[d] = token[i]

\* C7: for a destination usb:<a>:<b> the USB transport looks for the pair
\* (a, b) when both tokens are valid hexadecimal, and for the default pair
\* 04b8:0202 when either is not.
C7_MalformedHexFallsBack ==
  LET parts == Split(printerOpt, ":")
  IN  ( /\ Has("findByIds")
        /\ BeginsWith(printerOpt, S_usbColon)
        /\ Len(parts) = 3 )
      => IF IsHex(parts[2]) /\ IsHex(parts[3])
         THEN usbIds = [vid |-> ParseInt(parts[2], 16),
                        pid |-> ParseInt(parts[3], 16)]
         ELSE usbIds = [vid |-> EPSON_VENDOR_ID, pid |-> TM_T88V_PRODUCT_ID]

\* the print call waits for an answer of the destination: the TCP connect
\* or write, or a status or discovery query of the spooler
AwaitsDestination ==
  \/ pc = "tcp_await" /\ promise = "pending"
  \/ pc \in {"cups_status_wait", "cups_list_wait"}

\* C8: a print call that waits for the destination eventually stops
\* waiting (it resolves or fails), whether the destination answers or not.
C8_PrintCallEventuallyEnds ==
  AwaitsDestination ~> ~AwaitsDestination

\* C9: sendViaTcp resolves only after the connection was established and
\* the write was flushed; a socket error before that point makes the call
\* fail with an error carrying the reason; the promise is settled by the
\* first resolve or reject only.
C9_ResolvesOnlyAfterFlush ==
  /\ promise = "resolved" => (Has("end") /\ flushed)
  /\ (sock.state \in {"destroyed", "errored"} /\ ~flushed) =>
       promise /= "resolved"
  /\ (promise = "rejected" /\ callError.kind = "ConnectionFailed") =>
       callError.reason = sock.reason
  /\ (promise = "rejected" /\ settles /= <<>>) => settles[1] /= "resolve"
  /\ (promise = "resolved" /\ settles /= <<>>) => settles[1] = "resolve"

FailedFormats == {errors[i].format : i \in 1..Len(errors)}
RequestedFormats == {outputFormats[i] : i \in 1..Len(outputFormats)}

\* C10: in a finished run of several formats whose printer output failed,
\* every requested format was attempted, in order, each format other than
\* the failed ones completed, and the run failed (exit code 1) exactly when
\* every requested format failed.
C10_OtherFormatsStillRun ==
  ( /\ pc = "exec_done"
    /\ Len(outputFormats) > 1
    /\ "printer" \in FailedFormats )
  => /\ attempted = outputFormats
     /\ completed = RequestedFormats \ FailedFormats
     /\ (exitCode = "1") = (FailedFormats = RequestedFormats)

\* C10 witness: printer came first of three formats and failed on its
\* transport; html and console completed and the run did not fail.
C10_Witness ==
  /\ pc = "exec_done"
  /\ Len(outputFormats) = 3
  /\ outputFormats[1] = "printer"
  /\ errors = <<[format |-> "printer",
                 error |-> Err("ConnectionFailed", "ECONNREFUSED")]>>
  /\ completed = {"html", "console"}
  /\ exitCode = "0"
\* a library call that only cleans up after the transport: close, unlink
CleanupOps == {"close", "unlink"}

\* the print call has been caught by the loop of execute
PrintCaught == dispatches > 0 /\ pc \notin PrintPcs \cup {"print_return"}

\* C11: one print call makes a single attempt.  At most one transport is
\* ever dispatched and it never changes; once the transport has thrown, the
\* only library calls still made are the cleanup calls; once the call has
\* failed, no library call is made, and no socket, device or spool file
\* changes, ever again (no retry, no fallback); the call ends succeeded or
\* failed, and the failure is in the caller's list of errors.
C11_SingleAttempt ==
  [][ /\ dispatches' <= 1
      /\ dispatches = 1 => transport' = transport /\ dispatches' = 1
      /\ thrown /= NoError =>
            \/ ops' = ops
            \/ \E op \in CleanupOps : ops' = Append(ops, op)
      /\ callError /= NoError =>
            /\ callError' = callError
            /\ ops' = ops
            /\ sock' = sock /\ dev' = dev /\ tmpFile' = tmpFile
      /\ PrintCaught' =>
            IF callError' = NoError
            THEN "printer" \in completed'
            ELSE /\ "printer" \notin completed'
                 /\ \E i \in 1..Len(errors') :
                      errors'[i] = [format |-> "printer", error |-> callError']
    ]_vars

\* C11 witness: the TCP connection was refused, the call failed after its
\* one dispatch, and the run is over with that error on the caller's list.
C11_Witness ==
  /\ exitCode /= "none"
  /\ dispatches = 1
  /\ callError = Err("ConnectionFailed", "ECONNREFUSED")
  /\ ops = <<"createConnection">>
  /\ \E i \in 1..Len(errors) : errors[i].format = "printer"

\* the status query of the spooler call failed
StatusQueryFailed == transport = "cups" /\ Has("lpstatAll")

\* C13: when the status query fails, the call fails with an error that
\* names the requested destination; the error lists the destinations the
\* listing returned when the listing succeeded and returned some, lists
\* nothing (and is still that same error) when the listing failed; no print
\* job is submitted.
C13_StatusFailureNamesDestination ==
  (PrintReturned /\ StatusQueryFailed) =>
     /\ callError.kind = "DestinationNotConfigured"
     /\ callError.about = printerOpt
     /\ (cupsListing.ok /\ cupsListing.printers /= <<>>)
          => callError.detail = cupsListing.printers
     /\ ~cupsListing.ok => callError.detail = <<>>
     /\ ~Has("lp")

\* C13 witness: the status query failed, the listing returned two
\* destinations, and the call has failed listing both.
C13_Witness ==
  /\ PrintReturned /\ StatusQueryFailed
  /\ cupsListing.ok
  /\ callError.about = <<"O", "f", "f", "i", "c", "e">>
  /\ callError.detail = <<P_TM, P_HP>>

\* findByIds found no device with the ID pair looked for
NoDeviceMatched == transport = "usb" /\ Has("findByIds") /\ ~Has("open")

\* C14: when no USB device matches the ID pair, the call fails with a
\* device-not-found error that names the pair looked for and lists the ID
\* pairs of the first 10 visible devices at most, or (none) when no device
\* is visible; no device is opened and no transfer is made.
C14_DeviceNotFoundListsVisible ==
  (PrintReturned /\ NoDeviceMatched) =>
     /\ callError.kind = "DeviceNotFound"
     /\ callError.about = IdPair(usbIds.vid, usbIds.pid)
     /\ IF deviceList.devices = <<>>
        THEN callError.detail = <<S_none>>
        ELSE /\ Len(callError.detail) <= SUMMARY_LIMIT
             /\ Len(callError.detail) <= Len(deviceList.devices)
             /\ \/ Len(callError.detail) = SUMMARY_LIMIT
                \/ Len(callError.detail) = Len(deviceList.devices)
             /\ \A i \in 1..Len(callError.detail) :
                  callError.detail[i] =
                    <<" ", " ">> \o IdPair(deviceList.devices[i].idVendor,
                                           deviceList.devices[i].idProduct)
     /\ ~Has("open") /\ ~Has("transfer")

\* C15: the listing of the visible devices never throws: whenever no device
\* matched and the visible devices were listed for the diagnostic, the call
\* fails with the device-not-found error.
C15_EnumerationNeverThrows ==
  (PrintReturned /\ NoDeviceMatched /\ Has("getDeviceList"))
    => callError.kind = "DeviceNotFound"

\* C16: when interface 0 of the opened device has no OUT endpoint, the call
\* fails with an endpoint-not-found error, which is not the device-not-found
\* error, listing the address and direction of every endpoint of the
\* interface; no transfer is attempted.
C16_EndpointNotFoundListsEndpoints ==
  (PrintReturned /\ InterfaceWasClaimed /\ ~HasOutEndpoint(endpoints)) =>
     /\ callError.kind = "EndpointNotFound"
     /\ callError.kind /= "DeviceNotFound"
     /\ Len(callError.detail) = Len(endpoints)
     /\ \A i \in 1..Len(endpoints) :
          callError.detail[i] =
            Decimal(endpoints[i].address) \o <<" ", "(">>
              \o endpoints[i].direction \o <<")">>
     /\ ~Has("transfer")

\* the call has named its spool file and has not yet unlinked it
UsesTmpFile(c) == spoolCall[c].at \in {"write", "lp", "unlink"}

\* C12: two spooler calls running at the same time never use the same
\* temporary file.
C12_DistinctTempFiles ==
  \A c \in SpoolCalls, d \in SpoolCalls :
    (c /= d /\ UsesTmpFile(c) /\ UsesTmpFile(d))
      => spoolCall[c].tmpFile /= spoolCall[d].tmpFile

\* what the shared file costs: a call's lp queued the other call's buffer,
\* or found no file although the call's own write had succeeded
SpoolInterference ==
  \/ \E i \in 1..Len(lpJobs) : lpJobs[i].buffer /= lpJobs[i].call
  \/ \E c \in SpoolCalls :
       /\ spoolCall[c].at = "lp"
       /\ tmpdir[spoolCall[c].tmpFile] = NoFile

\* C19: every renderer shows the same display name for a model identifier.
C19_SameNameInEveryRenderer ==
  \A r1 \in Renderers, r2 \in Renderers :
    (shown[r1] /= <<>> /\ shown[r2] /= <<>>) => shown[r1][1] = shown[r2][1]

\* C20: the normalization is idempotent and table-driven: a second
\* application returns what the first returned; an identifier that is a key
\* of the renderer's table once its date suffix is removed yields the
\* marketing name of that key; every other identifier is returned unchanged.
C20_IdempotentTableDriven ==
  \A r \in Renderers :
    /\ Len(shown[r]) >= 2 => shown[r][2] = shown[r][1]
    /\ Len(shown[r]) >= 1 =>
         shown[r][1] =
           IF StripDateSuffix(modelId) \in DOMAIN ModelMapOf(r)
           THEN ModelMapOf(r)[StripDateSuffix(modelId)]
           ELSE modelId

\* the bold mode is on when the command at index i is appended: the last
\* bold command before it switched the mode on
BoldAt(i) ==
  LET switches == {j \in 1..(i - 1) : buffer[j].op = "bold"}
  IN  /\ switches /= {}
      /\ \E j \in switches :
           /\ \A k \in switches : k <= j
           /\ buffer[j].args = <<"on">>

\* the two-column rows appended in bold
BoldRows ==
  {i \in 1..Len(buffer) : buffer[i].op = "leftRight" /\ BoldAt(i)}

\* the k-th element of a set of indices
Nth(indices, k) ==
  CHOOSE i \in indices : Cardinality({j \in indices : j <= i}) = k

\* the two-column rows between the k-th bold row and the next one
RowsUnder(bold, k) ==
  {i \in (Nth(bold, k) + 1)..(Nth(bold, k + 1) - 1) :
     buffer[i].op = "leftRight"}

\* the bold rows are the header rows of the N records, each with the display
\* name and the cost of its record, and then the TOTAL row
HeaderRowsAsStated(bold) ==
  /\ Cardinality(bold) = Len(modelBreakdowns) + 1
  /\ buffer[Nth(bold, Len(modelBreakdowns) + 1)].args[1] = L_TOTAL
  /\ \A k \in 1..Len(modelBreakdowns) :
       buffer[Nth(bold, k)].args =
         << GetModelName("thermal", modelBreakdowns[k].modelName),
            FormatCurrency(modelBreakdowns[k].cost) >>

\* among the rows: exactly one row of the category, showing the count, when
\* a row is expected, and none otherwise
CategoryRowAsStated(rows, label, expected, count) ==
  LET ofCategory == {i \in rows : buffer[i].args[1] = label}
  IN  IF expected
      THEN /\ Cardinality(ofCategory) = 1
           /\ \A i \in ofCategory : buffer[i].args[2] = FormatNumber(count)
      ELSE ofCategory = {}

\* the count of an optional field, 0 when absent
CountOf(opt) == IF opt = Absent THEN 0 ELSE opt[1]

\* the rows are rows of the four categories
OnlyCategoryRows(rows) ==
  \A i \in rows :
    buffer[i].args[1] \in {L_INPUT, L_OUTPUT, L_CACHE_WRITE, L_CACHE_READ}

Around(between) ==
  /\ Len(row) = Len(left) + between + Len(right)
  /\ SubSeq(row, 1, Len(left)) = left
  /\ SubSeq(row, Len(row) - Len(right) + 1, Len(row)) = right
  /\ \A i \in (Len(left) + 1)..(Len(left) + between) : row[i] = " "

\* C18, as stated: when len(left) + len(right) <= W the row is exactly W
\* characters long, begins with left and ends with right; when the combined
\* length exceeds W the row is left, one space, right.
C18_ExactWidthUpToW ==
  row /= <<>> =>
    IF Len(left) + Len(right) <= WIDTH
    THEN Len(row) = WIDTH /\ Around(WIDTH - Len(left) - Len(right))
    ELSE Around(1)

\* C18, amended: when len(left) + len(right) < W the row is exactly W
\* characters long, begins with left, ends with right and has only spaces
\* in between; when the combined length is W or more the row is left, one
\* space, right, with nothing truncated, and so is longer than W.
C18_ExactWidthBelowW ==
  row /= <<>> =>
    IF Len(left) + Len(right) < WIDTH
    THEN Len(row) = WIDTH /\ Around(WIDTH - Len(left) - Len(right))
    ELSE Around(1) /\ Len(row) > WIDTH

\* C18 witness: a row was formatted from texts that fill the line exactly
C18_Witness ==
  /\ row /= <<>>
  /\ left /= <<>> /\ right /= <<>>
  /\ Len(left) + Len(right) = WIDTH
  /\ Len(row) = WIDTH + 1


\* C21: in hook mode, a run whose session data could not be fetched ends
\* silently: it is over, no receipt was generated, no output format was
\* started or produced, no print call was made, and the exit is no failure.
C21_HookFetchFailureIsSilent ==
  (isFromHook /\ sessionData = "failed") =>
    /\ pc = "exec_done"
    /\ exitCode = "0"
    /\ ~receipt
    /\ outputFormats = <<>>
    /\ attempted = <<>>
    /\ completed = {}
    /\ errors = <<>>
    /\ dispatches = 0
    /\ ops = <<>>

\* C21 witness: a hook run whose fetch failed has ended
C21_Witness ==
  /\ isFromHook
  /\ sessionData = "failed"
  /\ pc = "exec_done"
  /\ output /= Undefined /\ Len(output) >= 1

\* C27: a run that generated the receipt exits with a failure only if an
\* output format was attempted and failed; a run in which no output format
\* failed, its list of formats empty or not, ends without a failure exit.
C27_FailureOnlyAfterFailedOutput ==
  (pc = "exec_done" /\ receipt) =>
    /\ exitCode = "1" =>
         \E i \in 1..Len(errors) :
           \E j \in 1..Len(attempted) : attempted[j] = errors[i].format
    /\ errors = <<>> => exitCode = "0"


\* the library calls of a USB print call that succeeded, after findByIds
UsbSuccessSteps(detached) ==
  <<"open", "interface">>
    \o (IF detached THEN <<"detachKernelDriver">> ELSE <<>>)
    \o <<"claim", "endpoints", "transfer", "release", "close">>

\* C24: on the USB success path the steps are, each once and in this
\* order: open, interface 0, detach of the kernel driver (only when one was
\* active), claim, endpoint lookup, one transfer, release, close.  The
\* driver is detached only when one is active; the interface is never
\* claimed, and so nothing is transferred, while a kernel driver is
\* attached; no transfer is made without the interface claimed.
C24_UsbStepsInOrder ==
  /\ [](/\ (transport = "usb" /\ PrintReturned /\ callError = NoError) =>
              \E detached \in BOOLEAN :
                ops = <<"findByIds">> \o UsbSuccessSteps(detached)
        /\ dev.claimed => ~dev.kernelDriver
        /\ pc = "usb_transfer" => dev.claimed)
  /\ [][ /\ (ops' /= ops /\ ops'[Len(ops')] = "detachKernelDriver")
              => dev.kernelDriver
         /\ (ops' /= ops /\ ops'[Len(ops')] = "claim")
              => ~dev.kernelDriver
         /\ (ops' /= ops /\ ops'[Len(ops')] = "transfer")
              => dev.claimed /\ Count("claim") = 1
       ]_vars

\* C24 witness: a USB print call has succeeded on a device whose kernel
\* driver was detached first
C24_Witness ==
  /\ transport = "usb"
  /\ PrintReturned
  /\ callError = NoError
  /\ Has("detachKernelDriver")
  /\ ~dev.open


\* where the buffer has a command of one of the kinds
CmdsOf(kinds) == {i \in 1..Len(buffer) : buffer[i].op \in kinds}

\* where the buffer has a text line beginning with the prefix
LinesWith(prefix) ==
  {i \in CmdsOf({"line"}) :
     buffer[i].args /= <<>> /\ StartsWith(buffer[i].args[1], prefix)}

\* every index of the first set is before every index of the second
Before(first, second) == \A i \in first, j \in second : i < j

\* the commands of the QR block
QrCmds ==
  {"qrModel", "qrCellSize", "qrErrorCorrection", "qrStore", "qrData",
   "qrPrint"}

\* C25: the buffer begins with the initialize command and the left-margin
\* command and ends with the partial cut; in between come, in this order,
\* the logo, the location and session lines, the model blocks in the order
\* of the records, the TOTAL row, the cashier line, the thank-you line and
\* the QR block; in the QR block the data is stored before it is printed;
\* every bold-on is followed by one row and bold-off, so the buffer ends
\* with bold off.
C25_SectionsInOrder ==
  buffer /= <<>> =>
    LET bold == BoldRows
        n == Len(modelBreakdowns)
        logo == CmdsOf({"logoRow"})
        location == LinesWith(<<"L", "o", "c", "a", "t", "i", "o", "n", ":">>)
        session == LinesWith(<<"S", "e", "s", "s", "i", "o", "n", ":">>)
        cashier == LinesWith(<<"C", "A", "S", "H", "I", "E", "R", ":">>)
        thanks == LinesWith(<<"T", "h", "a", "n", "k", " ", "y", "o", "u">>)
        qr == CmdsOf(QrCmds)
    IN  /\ buffer[1].op = "init"
        /\ buffer[2].op = "leftMargin"
        /\ CmdsOf({"init"}) = {1} /\ CmdsOf({"leftMargin"}) = {2}
        /\ buffer[Len(buffer)].op = "partialCut"
        /\ CmdsOf({"partialCut"}) = {Len(buffer)}
        /\ Cardinality(logo) = 5
        /\ \A s \in {location, session, cashier, thanks} : Cardinality(s) = 1
        /\ Before({2}, logo)
        /\ Before(logo, location)
        /\ Before(location, session)
        /\ HeaderRowsAsStated(bold)
        /\ Before(session, bold)
        /\ \A k \in 1..n :
             \E i \in RowsUnder(bold, k) :
               buffer[i].args = <<L_INPUT,
                                  FormatNumber(modelBreakdowns[k].inputTokens)>>
        /\ Before(bold, cashier)
        /\ Before(cashier, thanks)
        /\ Before(thanks, qr)
        /\ Before(qr, {Len(buffer)})
        /\ \A kind \in QrCmds : Cardinality(CmdsOf({kind})) = 1
        /\ Before(CmdsOf({"qrStore"}), CmdsOf({"qrData"}))
        /\ Before(CmdsOf({"qrData"}), CmdsOf({"qrPrint"}))
        /\ \A i \in CmdsOf({"bold"}) :
             buffer[i].args = <<"on">> =>
               /\ buffer[i + 1].op = "leftRight"
               /\ buffer[i + 2] = Cmd("bold", <<"off">>)
        /\ ~BoldAt(Len(buffer) + 1)

\* C25 witness: a receipt of two different records was built
C25_Witness ==
  /\ buffer /= <<>>
  /\ Len(modelBreakdowns) = 2
  /\ modelBreakdowns[1].modelName /= modelBreakdowns[2].modelName
  /\ modelBreakdowns[1].inputTokens /= modelBreakdowns[2].inputTokens
  /\ Cardinality(BoldRows) = 3
  /\ CmdsOf({"qrPrint"}) /= {}


\* the hook commands of a settings file that do not mention claude-receipts,
\* event by event, in the order of the file; none when the file is absent
\* or does not parse
ForeignCommands(file) ==
  LET hooks == IF file /= NoSuchFile /\ file.parses
                  /\ "hooks" \in DOMAIN file.value
               THEN file.value["hooks"] ELSE <<>>
      CommandsOf(groups) ==
        Join([g \in 1..Len(groups) |->
                [i \in 1..Len(groups[g].hooks) |-> groups[g].hooks[i].command]],
             <<>>)
  IN  [e \in {"SessionEnd", "Stop"} |->
         IF e \in DOMAIN hooks
         THEN SelectSeq(CommandsOf(hooks[e]),
                        LAMBDA c : ~Includes(c, <<"c", "l", "a", "u", "d", "e", "-", "r", "e", "c", "e", "i", "p", "t", "s">>))
         ELSE <<>>]

\* the SessionEnd commands of a settings file that mention claude-receipts
ReceiptsCommands(file) ==
  LET hooks == IF file /= NoSuchFile /\ file.parses
                  /\ "hooks" \in DOMAIN file.value
               THEN file.value["hooks"] ELSE <<>>
      groups == IF "SessionEnd" \in DOMAIN hooks THEN hooks["SessionEnd"]
                ELSE <<>>
  IN  SelectSeq(
        Join([g \in 1..Len(groups) |->
                [i \in 1..Len(groups[g].hooks) |-> groups[g].hooks[i].command]],
             <<>>),
        LAMBDA c : Includes(c, <<"c", "l", "a", "u", "d", "e", "-", "r", "e", "c", "e", "i", "p", "t", "s">>))

\* C22: every write of settings.json by a run of setup, install or
\* uninstall, over a settings.json that existed, comes after a write, in
\* the same run, of the backup file with the content settings.json had.
C22_BackupBeforeEveryWrite ==
  \A i \in 1..Len(fsLog) :
    (fsLog[i].path = "settings" /\ settingsBefore /= NoSuchFile) =>
      \E j \in 1..(i - 1) : fsLog[j] = WriteFile("backup", settingsBefore)

\* C29: no run of setup changes the hook commands that do not mention
\* claude-receipts, of SessionEnd or of another event.
C29_ForeignHooksUnchanged ==
  [][ForeignCommands(settingsFile') = ForeignCommands(settingsFile)]_vars

AllowedInHourFrom(t) ==
  {j \in DOMAIN allowedAt :
     /\ allowedAt[j].at >= t
     /\ allowedAt[j].at < t + WINDOW_SECONDS * 1000}

\* the allowed requests counted in the window that starts at time w
AllowedInWindow(w) == {j \in DOMAIN allowedAt : allowedAt[j].window = w}

\* C23: when the requests of a client come one after the other, at most
\* RATE_LIMIT of them are allowed in any period of one hour, and a request
\* answered 429 stores nothing
C23_TenPerHour ==
  /\ [](\A i \in DOMAIN allowedAt :
          Cardinality(AllowedInHourFrom(allowedAt[i].at)) <= RATE_LIMIT)
  /\ [][served' = served + 1 /\ response' = << 429 >> =>
          stored' = stored /\ allowedAt' = allowedAt]_vars

\* C26: with requests in flight together, the requests allowed in one window
\* never exceed RATE_LIMIT, and once every request is answered the entry's
\* count is the number of requests allowed in its window
C26_ConcurrentLimitHolds ==
  /\ \A j \in DOMAIN allowedAt :
       Cardinality(AllowedInWindow(allowedAt[j].window)) <= RATE_LIMIT
  /\ (InFlight = {} /\ kv # <<>>) =>
       kv[1].count = Cardinality(AllowedInWindow(kv[1].windowStart))


\* C28: when valid JSON is piped on stdin, the promise of
\* readStdinIfAvailable has the parsed payload for value, whenever the data
\* arrives, and resolve is called once
C28_PipedPayloadReturned ==
  (/\ ~stdin.isTTY
   /\ ~JsonParse(TextOf(stdin.document)).throws
   /\ resolved # <<>>) =>
     /\ resolved[1] = JsonParse(TextOf(stdin.document)).value
     /\ Len(resolved) = 1

====
